---- MODULE Spec2Model ----
(***************************************************************************)
(* Anomaly-detection and alert-dispatch engine of the crypto monitor.      *)
(*                                                                         *)
(* The variants of the engine are modelled side by side; `variant` says    *)
(* which program is running:                                               *)
(*   "monitor" : src/monitor.py, class Monitor (dedup cache, time-scanned  *)
(*               open-interest history, threaded notifier)                 *)
(*   "pcm"     : src/python:crypto_monitor.py, main() (6-slot history,     *)
(*               sequential send_alert, no dedup gate)                     *)
(*   "spy"     : src/crypto_spy.py, main() (one pass over the symbols,     *)
(*               one channel)                                              *)
(*   "ecm"     : src/crypto_monitor.py, EnhancedCryptoMonitor (the loop of *)
(*               start_monitoring around run_monitoring_cycle)             *)
(* The pure functions of the programs (alert rules, source selection) are  *)
(* also applied to inputs drawn from bounded sets: `input` holds the       *)
(* arguments and `output` what each program computes from them.            *)
(*                                                                         *)
(* Time is the wall clock in whole seconds; utcnow_ms() is now * 1000.     *)
(* The clock never runs backwards.                                         *)
(*                                                                         *)
(* The environment is explored around a quiet market: every fetch answers  *)
(* at once, open interest reads 1000, the last candle does not meet the    *)
(* spot rule, every send is answered 200 and time.sleep returns on time.   *)
(* Each departure from that (a failed or slow fetch, a jump of the open    *)
(* interest, a candle that meets the rule, a stale candle, a failed send,  *)
(* a sleep that overruns, an exception raised by a symbol or a cycle) is    *)
(* counted in `deviations`, and a run holds at most MaxDeviations of them, *)
(* in any places and in any combination.                                   *)
(***************************************************************************)
EXTENDS Integers, Sequences, FiniteSets, TLC

VARIABLES
    variant,         \* which program runs
    now,             \* wall clock, seconds (time.time())
    pc,              \* position of the polling loop
    idx,             \* index of the symbol being processed in this cycle
    start,           \* time.time() taken at the top of the cycle
    cycle,           \* number of cycles started so far
    deviations,      \* departures from the quiet market so far
    futures_symbols, \* Monitor.futures_symbols (sorted) / main().bases
    spot_symbols,    \* Monitor.spot_symbols : what the spot venue lists
    configured,      \* the channels whose credentials the environment sets
    dedup_cache,     \* Monitor.dedup_cache : key -> second of last fire
    oi_history,      \* Monitor.oi_history  : symbol -> seq of <<ts_ms, oi>>
    history,         \* main().history : base -> seq of [ts, oi, price]
    threads,         \* sender threads started by notify_all, not yet run
    attempts,        \* finished channel sends: [msg, channel, ok]
    notified,        \* messages handed to notify_all / send_alert
    lookup,          \* last prior-sample lookup made by the OI rule
    dedup_call,      \* last call of Monitor._dedup: [key, at, prior, skip]
    HISTORY,         \* crypto_spy.py HISTORY : symbol -> [oi, spot_ex]
    events,          \* steps taken for a symbol: [what, symbol, cycle]
    push_config,     \* PushService: [webhook_url, enable_push, push_cooldown]
    last_push_time,  \* PushService.last_push_time : symbol -> time.time()
    previous_prices, \* EnhancedCryptoMonitor.previous_prices : symbol -> price
    alert_history,   \* EnhancedCryptoMonitor.alert_history : seq of alerts
    cycle_count,     \* EnhancedCryptoMonitor.cycle_count
    input,           \* arguments of the function being applied
    output           \* what the programs compute from `input`

vars == <<variant, now, pc, idx, start, cycle, deviations, futures_symbols,
          spot_symbols, configured, dedup_cache, oi_history, history, threads, attempts,
          notified, lookup, dedup_call, HISTORY, events, push_config,
          last_push_time, previous_prices, alert_history, cycle_count,
          input, output>>

\* what never changes once the process is up
config == <<variant, futures_symbols, spot_symbols, configured, push_config>>

\* the state of EnhancedCryptoMonitor and of its PushService
engine == <<last_push_time, previous_prices, alert_history, cycle_count>>

\* the arguments and results of a function application
harness == <<input, output>>

----------------------------------------------------------------------------
(* Bounds of the model *)

T0 == 6040              \* clock reading when the process starts (seconds)
MaxCycles == 3          \* polling cycles of monitor.py explored
PcmMaxCycles == 7       \* polling cycles of python:crypto_monitor.py explored
PairMaxCycles == 2      \* cycles explored when it follows two bases
MaxDeviations == 3      \* departures from the quiet market in one run
MaxElapsed == 70        \* longest cycle handed to the sleep computation (seconds)
EcmMaxCycles == 3       \* polling cycles of crypto_monitor.py explored
QuickCycle == 5         \* seconds a monitoring cycle takes when it is quick
SlowCycle == 70         \* and when it takes longer than the interval
ShortCooldown == 100    \* a push_cooldown shorter than two polling periods (seconds)
EcmBudget == 2          \* departures in a run of crypto_monitor.py
MaxLimit == 4           \* largest SYMBOLS_LIMIT explored
FaultBudget == 1        \* departures in a run with cycle errors and stop signal

\* what the environment may answer
QuietOI == 1000         \* open interest of the quiet market
JumpOI == 1060          \* open interest after a jump of 6 %
SlowFetch == 40         \* seconds a slow fetch takes
SleepLag == 580         \* seconds a sleep may overrun

(* Program constants *)

DEDUP_TTL_SECONDS == 600
FUTURES_OI_WINDOW_MIN == 5
FUTURES_OI_MIN_GROWTH_PCT == 5
DEFAULT_LOOP_INTERVAL == 20
OI_HISTORY_MAXLEN == 60
SPOT_MIN_USD_VALUE == 50000
SPOT_MIN_MOVE_PCT == 2
CANDLE_SECONDS == 60
LOOP_INTERVAL == 60
HISTORY_MAXLEN == 6
SPOT_USD_VOLUME_THRESHOLD == 50000
SPOT_PRICE_CHANGE_THRESHOLD == 2
FUTURE_OI_INCREASE_THRESHOLD == 5

\* Python None, and an optional value x as <<x>>
None == <<>>

\* the contracts the futures venue may list
SymbolSet == {"BTC", "ETH"}

OIValues == {QuietOI, JumpOI}
FetchDelays == {0, SlowFetch}
SleepLags == {0, SleepLag}

----------------------------------------------------------------------------
(* Helpers *)

Max(a, b) == IF a >= b THEN a ELSE b

Abs(x) == IF x < 0 THEN -x ELSE x

\* Python int(x / y) for x >= 0, y > 0
IntDiv(x, y) == x \div y

\* symbols[:n] for n >= 0
Take(symbols, n) == SubSeq(symbols, 1, IF Len(symbols) < n THEN Len(symbols) ELSE n)

utcnow_ms(t) == t * 1000

Put(f, k, v) == [x \in (DOMAIN f) \cup {k} |-> IF x = k THEN v ELSE f[x]]

Restrict(f, S) == [x \in S |-> f[x]]

\* mutant: appendleft instead of append
DequeAppendLeft(q, x, n) ==
    IF Len(q) >= n THEN <<x>> \o SubSeq(q, 1, Len(q) - 1) ELSE <<x>> \o q

\* deque(maxlen=n).append(x)
DequeAppend(q, x, n) ==
    IF Len(q) >= n THEN Append(Tail(q), x) ELSE Append(q, x)

\* one departure from the quiet market when b holds
Dev(b) == IF b THEN 1 ELSE 0

\* a step that departs n times from the quiet market
Spend(n) ==
    /\ deviations + n <= MaxDeviations
    /\ deviations' = deviations + n

Msg(kind, sym, key, t) ==
    [kind |-> kind, symbol |-> sym, key |-> key, at |-> t, cycle |-> cycle]

----------------------------------------------------------------------------
(* src/monitor.py : Monitor._dedup *)

\* dedup keys: f"spot:{spot.id}:{symbol}:{ts}" and f"oi:{symbol}:{window_key}"
SpotKey(sym, ts) == <<"spot", sym, ts>>

OIKey(sym, window_key) == <<"oi", sym, window_key>>

\* mutant: the comparison with the TTL inverted
DedupSkipInverted(cache, key, t) ==
    /\ key \in DOMAIN cache
    /\ cache[key] # 0
    /\ t - cache[key] >= DEDUP_TTL_SECONDS

\* ts = dedup_cache.get(key); if ts and now - ts < DEDUP_TTL_SECONDS: return True
DedupSkip(cache, key, t) ==
    /\ key \in DOMAIN cache
    /\ cache[key] # 0
    /\ t - cache[key] < DEDUP_TTL_SECONDS

\* mutant: purge with > instead of >=
PurgeStrict(cache, t) ==
    Restrict(cache, {k \in DOMAIN cache : ~(t - cache[k] > DEDUP_TTL_SECONDS)})

\* to_del = [k for k, v in items() if now - v >= DEDUP_TTL_SECONDS]; pop each
Purge(cache, t) ==
    Restrict(cache, {k \in DOMAIN cache : ~(t - cache[k] >= DEDUP_TTL_SECONDS)})

\* mutant: a suppressed call refreshes the key's timestamp
DedupCacheRefresh(cache, key, t) == Purge(Put(cache, key, t), t)

\* the cache after _dedup(key) called at second t
DedupCache(cache, key, t) ==
    IF DedupSkip(cache, key, t) THEN cache ELSE Purge(Put(cache, key, t), t)

\* the record of the call: the key, the second, the timestamp found, the answer
DedupCall(cache, key, t) ==
    [key   |-> key,
     at    |-> t,
     prior |-> IF key \in DOMAIN cache THEN <<cache[key]>> ELSE None,
     skip  |-> DedupSkip(cache, key, t)]

----------------------------------------------------------------------------
(* src/monitor.py : Notifier *)

Channels == {"wechat", "telegram"}

\* notify_all: one daemon thread per channel, started and not joined
NotifyAll(ths, m) == ths \cup {[msg |-> m, channel |-> ch] : ch \in Channels}

\* mutant: a failed send takes the key back out of the cache
AfterSendRollback(cache, m, ok) ==
    IF ok THEN cache ELSE Restrict(cache, DOMAIN cache \ {m.key})

\* send_wechat / send_telegram: a non-200 answer or an exception is logged;
\* the dedup cache is not touched whatever the outcome
AfterSend(cache, m, ok) == cache

\* if not self._dedup(key): notify_all(msg)   (both alert rules end like this)
DedupAndNotify(kind, sym, key, t) ==
    /\ dedup_call' = DedupCall(dedup_cache, key, t)
    /\ dedup_cache' = DedupCache(dedup_cache, key, t)
    /\ IF DedupSkip(dedup_cache, key, t)
       THEN UNCHANGED <<threads, notified>>
       ELSE LET m == Msg(kind, sym, key, t) IN
            /\ notified' = notified \cup {m}
            /\ threads' = NotifyAll(threads, m)

\* mutant: a sender whose post failed stays to post again
ThreadsAfterSendRetry(ths, th, ok) == IF ok THEN ths \ {th} ELSE ths

\* the thread ends when its one requests.post is answered or has raised
ThreadsAfterSend(ths, th, ok) == ths \ {th}

MonThreadRun ==
    /\ variant = "monitor"
    /\ \E th \in threads :
         \/ \* if not self.wechat_webhook: return (and so for telegram)
            /\ th.channel \notin configured
            /\ threads' = threads \ {th}
            /\ UNCHANGED <<deviations, attempts, dedup_cache>>
         \/ \E ok \in BOOLEAN :
              /\ th.channel \in configured
              /\ Spend(Dev(~ok))
              /\ threads' = ThreadsAfterSend(threads, th, ok)
              /\ attempts' = attempts \cup
                   {[msg |-> th.msg, channel |-> th.channel, ok |-> ok]}
              /\ dedup_cache' = AfterSend(dedup_cache, th.msg, ok)
    /\ UNCHANGED <<config, harness, engine, HISTORY, events, now, pc, idx, start, cycle, oi_history, history,
                   notified, lookup, dedup_call>>

----------------------------------------------------------------------------
(* src/monitor.py : Monitor.check_spot_alert *)

\* ohlcvs[-2] of the quiet market, and a candle that meets the rule
QuietCandle == [o |-> 100, c |-> 101, vol |-> 500]

SpikeCandle == [o |-> 100, c |-> 103, vol |-> 500]

CandleShapes == {QuietCandle, SpikeCandle}

\* vol_quote >= SPOT_MIN_USD_VALUE and abs((c - o) / o) >= SPOT_MIN_MOVE
SpotRule(k) ==
    /\ k.c * k.vol >= SPOT_MIN_USD_VALUE
    /\ Abs(k.c - k.o) * 100 >= SPOT_MIN_MOVE_PCT * Abs(k.o)

\* not (o and c and vol_base): return; then the rule
SpotFires(k) == k.o # 0 /\ k.c # 0 /\ k.vol # 0 /\ SpotRule(k)

\* open time (ms) of the last closed 1m candle at second t
ClosedCandleTs(t) == (IntDiv(t, CANDLE_SECONDS) - 1) * CANDLE_SECONDS * 1000

\* a venue that published nothing new answers with a candle it gave before
StaleCandleTimes(cache, sym, t) ==
    {k[3] : k \in {x \in DOMAIN cache : x[1] = "spot" /\ x[2] = sym}}
        \ {ClosedCandleTs(t)}

\* what fetch_ohlcv may answer as ohlcvs[-2] at second t: the candle that
\* just closed, quiet or meeting the rule, or a stale candle meeting the rule
\* (a stale quiet candle changes nothing and is left out)
CandleAnswers(cache, sym, t) ==
    {<<k, ClosedCandleTs(t)>> : k \in CandleShapes}
        \cup {<<SpikeCandle, ts>> : ts \in StaleCandleTimes(cache, sym, t)}

QuietAnswer(t) == <<QuietCandle, ClosedCandleTs(t)>>

\* a step of run_once recorded for the symbol it is working on
MonEvent(what) ==
    [what |-> what, symbol |-> futures_symbols[idx], cycle |-> cycle]

\* the checks of a cycle are put on record from the moment a symbol of that
\* cycle has raised or the stop signal has arrived in it
MonRecorded(what) ==
    IF \E e \in events : e.what \in {"error", "interrupt"} /\ e.cycle = cycle
    THEN {MonEvent(what)}
    ELSE {}

\* run_once: the next symbol of the cycle, or the sleep that ends the cycle
MonAdvance ==
    IF idx < Len(futures_symbols)
    THEN idx' = idx + 1 /\ pc' = "spot"
    ELSE idx' = idx /\ pc' = "sleep"

\* mutant: the exception leaves run_once and ends the cycle
MonSymbolErrorRaise == idx' = idx /\ pc' = "sleep"

\* except Exception as e: logger.debug(...), and the for loop goes on
MonSymbolError == MonAdvance

MonCheckSpot ==
    /\ variant = "monitor"
    /\ pc = "spot"
    /\ LET sym == futures_symbols[idx] IN
       \/ \* if symbol not in self.spot_symbols: return
          /\ sym \notin spot_symbols
          /\ pc' = "oi" /\ idx' = idx
          /\ events' = events \cup MonRecorded("check")
          /\ UNCHANGED <<now, deviations, dedup_cache, threads, notified,
                         dedup_call>>
       \/ \* fetch_ohlcv raised, or answered fewer than 2 candles
          /\ sym \in spot_symbols
          /\ \E d \in FetchDelays :
               /\ Spend(1)
               /\ now' = now + d
          /\ pc' = "oi" /\ idx' = idx
          /\ events' = events \cup MonRecorded("check")
          /\ UNCHANGED <<dedup_cache, threads, notified, dedup_call>>
       \/ /\ sym \in spot_symbols
          /\ \E d \in FetchDelays :
             \E a \in CandleAnswers(dedup_cache, sym, now + d) :
               /\ Spend(Dev(d # 0) + Dev(a # QuietAnswer(now + d)))
               /\ now' = now + d
               /\ IF SpotFires(a[1])
                  THEN DedupAndNotify("spot", sym, SpotKey(sym, a[2]), now + d)
                  ELSE UNCHANGED <<dedup_cache, threads, notified, dedup_call>>
          /\ pc' = "oi" /\ idx' = idx
          /\ events' = events \cup MonRecorded("check")
    /\ UNCHANGED <<config, harness, engine, HISTORY, start, cycle, oi_history, history, attempts,
                   lookup>>

\* check_spot_alert raised past its own handlers (a candle that does not
\* unpack): run_once's except takes it and the symbol's
\* check_futures_oi_alert is not called
MonSymbolRaises ==
    /\ variant = "monitor"
    /\ pc = "spot"
    /\ futures_symbols[idx] \in spot_symbols
    /\ Spend(1)
    /\ events' = events \cup {MonEvent("check"), MonEvent("error")}
    /\ MonSymbolError
    /\ UNCHANGED <<config, harness, engine, HISTORY, now, start, cycle, dedup_cache,
                   oi_history, history, threads, attempts, notified, lookup,
                   dedup_call>>

----------------------------------------------------------------------------
(* src/monitor.py : Monitor.check_futures_oi_alert *)

WindowMs == FUTURES_OI_WINDOW_MIN * 60 * 1000

\* older = None; for t0, oi0 in q: if t0 <= cutoff: older = (t0, oi0)
RECURSIVE OlderFrom(_, _, _, _)
OlderFrom(q, cutoff, i, older) ==
    IF i > Len(q) THEN older
    ELSE OlderFrom(q, cutoff, i + 1, IF q[i][1] <= cutoff THEN q[i] ELSE older)

\* mutant: with no point at or before the cutoff, the oldest point is taken
OlderOrOldest(q, cutoff) ==
    IF OlderFrom(q, cutoff, 1, None) = None /\ Len(q) > 0
    THEN q[1]
    ELSE OlderFrom(q, cutoff, 1, None)

\* mutant: the scan stops at the first point at or before the cutoff
OlderFirst(q, cutoff) ==
    LET hits == {i \in 1..Len(q) : q[i][1] <= cutoff} IN
    IF hits = {} THEN None
    ELSE q[CHOOSE i \in hits : \A j \in hits : i <= j]

Older(q, cutoff) == OlderFrom(q, cutoff, 1, None)

\* (oi_now - oi_old) / oi_old >= FUTURES_OI_MIN_GROWTH, for oi_old # 0
Growth(oi_now, oi_old) ==
    IF oi_old > 0
    THEN (oi_now - oi_old) * 100 >= FUTURES_OI_MIN_GROWTH_PCT * oi_old
    ELSE (oi_now - oi_old) * 100 <= FUTURES_OI_MIN_GROWTH_PCT * oi_old

\* _, oi_old = older; if oi_old: growth = ...; if growth >= FUTURES_OI_MIN_GROWTH
MonOIRule(oi_now, oi_old) == oi_old # 0 /\ Growth(oi_now, oi_old)

\* mutant: the cutoff itself is the key, not its 5-minute bucket
WindowKeyRaw(cutoff) == cutoff

\* window_key = int(cutoff / (FUTURES_OI_WINDOW_MIN * 60 * 1000))
WindowKey(cutoff) == IntDiv(cutoff, WindowMs)

\* q.append((ts, oi_now)) on deque(maxlen=60)
OIAppend(q, ts, oi_now) == DequeAppend(q, <<ts, oi_now>>, OI_HISTORY_MAXLEN)

MonCheckOI ==
    /\ variant = "monitor"
    /\ pc = "oi"
    /\ LET sym == futures_symbols[idx] IN
       \E d \in FetchDelays :
         /\ now' = now + d
         /\ \/ \* the fetch raised or answered None
               /\ Spend(1)
               /\ UNCHANGED <<oi_history, dedup_cache, threads, notified,
                              lookup, dedup_call>>
            \/ \E oi_now \in OIValues :
                 LET ts     == utcnow_ms(now + d)
                     q      == OIAppend(oi_history[sym], ts, oi_now)
                     cutoff == ts - WindowMs
                     older  == Older(q, cutoff)
                 IN
                 /\ Spend(Dev(d # 0) + Dev(oi_now # QuietOI))
                 /\ oi_history' = [oi_history EXCEPT ![sym] = q]
                 /\ lookup' = [symbol |-> sym, at |-> ts, cutoff |-> cutoff,
                               older |-> older]
                 /\ IF older # None /\ MonOIRule(oi_now, older[2])
                    THEN DedupAndNotify("oi", sym,
                                        OIKey(sym, WindowKey(cutoff)), now + d)
                    ELSE UNCHANGED <<dedup_cache, threads, notified,
                                     dedup_call>>
    /\ events' = events \cup MonRecorded("oi_check")
    /\ MonAdvance
    /\ UNCHANGED <<config, harness, engine, HISTORY, start, cycle, history, attempts>>

----------------------------------------------------------------------------
(* src/monitor.py : Monitor.run_forever *)

\* start = time.time(); run_once() begins with the first symbol
MonStartCycle ==
    /\ variant = "monitor"
    /\ pc = "start"
    /\ cycle < MaxCycles
    /\ start' = now
    /\ cycle' = cycle + 1
    /\ idx' = 1
    /\ pc' = "spot"
    /\ UNCHANGED <<config, harness, engine, HISTORY, events, now, deviations, dedup_cache, oi_history, history,
                   threads, attempts, notified, lookup, dedup_call>>

\* mutant: the sleep is what is left of the interval, with no floor
SleepSecNoFloor(elapsed) == DEFAULT_LOOP_INTERVAL - elapsed

\* sleep_sec = max(1.0, DEFAULT_LOOP_INTERVAL - elapsed)
SleepSec(elapsed) == Max(1, DEFAULT_LOOP_INTERVAL - elapsed)

MonSleep ==
    /\ variant = "monitor"
    /\ pc = "sleep"
    /\ \E lag \in SleepLags :
         /\ Spend(Dev(lag # 0))
         /\ now' = now + SleepSec(now - start) + lag
    /\ pc' = "start"
    /\ UNCHANGED <<config, harness, engine, HISTORY, events, idx, start, cycle, dedup_cache, oi_history,
                   history, threads, attempts, notified, lookup, dedup_call>>

\* mutant: an exception that leaves run_once ends the process
MonLoopErrorFatal == idx' = idx /\ pc' = "crashed"

\* except Exception as e: logger.exception("loop error"), and run_forever
\* goes on to compute its sleep
MonLoopError == idx' = idx /\ pc' = "sleep"

\* run_once raised before its first symbol was checked
MonCycleError ==
    /\ variant = "monitor"
    /\ pc = "spot"
    /\ idx = 1
    /\ Spend(1)
    /\ events' = events \cup
                    {[what |-> "cycle_error", symbol |-> "", cycle |-> cycle]}
    /\ MonLoopError
    /\ UNCHANGED <<config, harness, engine, HISTORY, now, start, cycle, dedup_cache,
                   oi_history, history, threads, attempts, notified, lookup,
                   dedup_call>>

\* mutant: the interrupt is taken by run_once's handler like an Exception
MonInterruptSwallowed == MonSymbolError

\* KeyboardInterrupt is no Exception: it passes the handlers of run_once and
\* run_forever and reaches main, which logs it and returns
MonInterruptRaised == idx' = idx /\ pc' = "stopped"

\* the stop signal arrives while a symbol is checked or the loop sleeps
MonInterrupt ==
    /\ variant = "monitor"
    /\ pc \in {"spot", "oi", "sleep"}
    /\ events' = events \cup {MonEvent("interrupt")}
    /\ MonInterruptRaised
    /\ UNCHANGED <<config, harness, engine, HISTORY, now, start, cycle, deviations,
                   dedup_cache, oi_history, history, threads, attempts,
                   notified, lookup, dedup_call>>

NextMonitor ==
    \/ MonStartCycle
    \/ MonCheckSpot
    \/ MonCheckOI
    \/ MonThreadRun
    \/ MonSleep

NoLookup == [symbol |-> "", at |-> 0, cutoff |-> 0, older |-> None]

NoDedupCall == [key |-> <<>>, at |-> 0, prior |-> None, skip |-> FALSE]

\* the state a program starts from, with `spent` of the departures a run is
\* allowed already taken
InitProgram(spent) ==
    /\ now = T0
    /\ pc = "start"
    /\ idx = 1
    /\ start = T0
    /\ cycle = 0
    /\ deviations = spent
    /\ dedup_cache = <<>>
    /\ oi_history = [s \in SymbolSet |-> <<>>]
    /\ history = [s \in SymbolSet |-> <<>>]
    /\ threads = {}
    /\ attempts = {}
    /\ notified = {}
    /\ lookup = NoLookup
    /\ dedup_call = NoDedupCall
    /\ events = {}
    /\ last_push_time = <<>>
    /\ previous_prices = <<>>
    /\ alert_history = <<>>
    /\ cycle_count = 0

InitCommon == InitProgram(0)

\* a program is running, no function is being applied on its own
NoHarness == input = None /\ output = None

\* PushService(config) of load_config's defaults: no webhook_url, enable_push
\* False, push_cooldown 300; the other programs have no PushService
PUSH_COOLDOWN == 300

PushOff == [webhook_url |-> "", enable_push |-> FALSE,
            push_cooldown |-> PUSH_COOLDOWN]

\* two contracts, the first of them listed on the selected spot venue
MonitorSetup ==
    /\ variant = "monitor"
    /\ futures_symbols = <<"BTC", "ETH">>
    /\ spot_symbols = {"BTC"}
    /\ HISTORY = <<>>
    /\ push_config = PushOff
    /\ NoHarness

\* WECHAT_WEBHOOK, TELEGRAM_BOT_TOKEN and TELEGRAM_CHAT_ID are set
InitMonitor == MonitorSetup /\ configured = Channels /\ InitCommon

SpecMonitor == InitMonitor /\ [][NextMonitor]_vars

----------------------------------------------------------------------------
(* src/python:crypto_monitor.py : get_spot_1m_metrics, send_alert *)

\* ohlcvs[-2][4], ohlcvs[-1][4], ohlcvs[-1][5] of the quiet market, and of a
\* minute that meets the spot rule
PcmQuietCandle == [prev |-> 100, last |-> 103, vol |-> 100]

PcmSpikeCandle == [prev |-> 100, last |-> 103, vol |-> 500]

PcmCandles == {PcmQuietCandle, PcmSpikeCandle}

\* usd_volume_1m = base_volume * last_close
UsdVolume1m(k) == k.vol * k.last

\* mutant: both thresholds compared with > instead of >=
PcmSpotRuleStrict(k) ==
    /\ UsdVolume1m(k) > SPOT_USD_VOLUME_THRESHOLD
    /\ k.prev > 0
    /\ Abs(k.last - k.prev) * 100 > SPOT_PRICE_CHANGE_THRESHOLD * k.prev

\* usd_volume_1m >= SPOT_USD_VOLUME_THRESHOLD and
\* abs(price_change_pct) >= SPOT_PRICE_CHANGE_THRESHOLD, where pct_change is
\* (last_close - prev_close) / prev_close * 100.0 if prev_close > 0 else 0.0
PcmSpotRule(k) ==
    /\ UsdVolume1m(k) >= SPOT_USD_VOLUME_THRESHOLD
    /\ k.prev > 0
    /\ Abs(k.last - k.prev) * 100 >= SPOT_PRICE_CHANGE_THRESHOLD * k.prev

\* send_alert: send_telegram(message), then send_wecom(message)
PcmChannels == <<"telegram", "wecom">>

Outcomes == [{PcmChannels[i] : i \in 1..Len(PcmChannels)} -> BOOLEAN]

AllOk == [ch \in {PcmChannels[i] : i \in 1..Len(PcmChannels)} |-> TRUE]

\* posts that fail; a channel without credentials makes none
Failures(out) == Cardinality({ch \in DOMAIN out \cap configured : ~out[ch]})

\* the outcomes to explore for an alert that is sent, or is not
OutcomesIf(sent) == IF sent THEN Outcomes ELSE {AllOk}

\* mutant: send_wecom is reached only when send_telegram succeeded
SendAlertStopOnFailure(m, out) ==
    {[msg |-> m, channel |-> ch, ok |-> out[ch]] :
        ch \in {c \in DOMAIN out : c = PcmChannels[1] \/ out[PcmChannels[1]]}}

\* each of the two returns before its post when its credentials are missing
SendAlert(m, out) ==
    {[msg |-> m, channel |-> ch, ok |-> out[ch]] :
        ch \in DOMAIN out \cap configured}

----------------------------------------------------------------------------
(* src/python:crypto_monitor.py : main, the body of `for base in bases` *)

\* history[base].append({"ts": ..., "oi": ..., "price": ...}) on deque(maxlen=6)
HistoryAppend(h, item) == DequeAppend(h, item, HISTORY_MAXLEN)

\* prev_item = history[base][0]
PrevItem(h) == h[1]

\* change_pct = (now - prev) / prev * 100.0 >= FUTURE_OI_INCREASE_THRESHOLD
PcmOIRule(now_item, prev_item) ==
    /\ now_item.oi # None
    /\ prev_item.oi # None
    /\ prev_item.oi[1] > 0
    /\ (now_item.oi[1] - prev_item.oi[1]) * 100
           >= FUTURE_OI_INCREASE_THRESHOLD * prev_item.oi[1]

PcmAdvance ==
    IF idx < Len(futures_symbols)
    THEN idx' = idx + 1 /\ pc' = "sym"
    ELSE idx' = idx /\ pc' = "sleep"

PcmEvent(what) ==
    [what |-> what, symbol |-> futures_symbols[idx], cycle |-> cycle]

\* mutant: the exception leaves the for loop and ends the cycle
PcmSymbolErrorRaise == idx' = idx /\ pc' = "sleep"

\* except Exception as e: logger.debug(...); continue
PcmSymbolError == PcmAdvance

PcmSymbol ==
    /\ variant = "pcm"
    /\ pc = "sym"
    /\ LET base == futures_symbols[idx] IN
       \/ \* no spot venue lists the symbol: `if not best: continue`
          /\ Spend(1)
          /\ events' = events \cup {PcmEvent("select")}
          /\ PcmAdvance
          /\ UNCHANGED <<history, notified, attempts, lookup>>
       \/ \E metrics \in {None} \cup {<<k>> : k \in PcmCandles},
             oi \in {None} \cup {<<v>> : v \in OIValues} :
            LET spotFires == metrics # None /\ PcmSpotRule(metrics[1])
                item == [ts    |-> now,
                         oi    |-> oi,
                         price |-> IF metrics # None
                                   THEN <<metrics[1].last>> ELSE None]
                h == HistoryAppend(history[base], item)
                evaluated == Len(h) >= HISTORY_MAXLEN
                oiFires == evaluated /\ PcmOIRule(h[Len(h)], PrevItem(h))
                compared == /\ evaluated
                            /\ oi # None
                            /\ PrevItem(h).oi # None
                            /\ PrevItem(h).oi[1] > 0
                mSpot == Msg("spot", base, None, now)
                mOI == Msg("oi", base, None, now)
            IN
            \E outSpot \in OutcomesIf(spotFires),
               outOI \in OutcomesIf(oiFires) :
            /\ Spend(Dev(metrics # <<PcmQuietCandle>>) + Dev(oi # <<QuietOI>>)
                     + Failures(outSpot) + Failures(outOI))
            /\ history' = [history EXCEPT ![base] = h]
            /\ notified' = notified
                             \cup (IF spotFires THEN {mSpot} ELSE {})
                             \cup (IF oiFires THEN {mOI} ELSE {})
            /\ attempts' = attempts
                             \cup (IF spotFires THEN SendAlert(mSpot, outSpot)
                                   ELSE {})
                             \cup (IF oiFires THEN SendAlert(mOI, outOI)
                                   ELSE {})
            /\ lookup' = IF compared
                         THEN [symbol |-> base, at |-> now,
                               cutoff |-> now - FUTURES_OI_WINDOW_MIN * 60,
                               older |-> <<PrevItem(h)>>]
                         ELSE lookup
            /\ events' = events \cup {PcmEvent("select")}
            /\ PcmAdvance
    /\ UNCHANGED <<config, harness, engine, HISTORY, now, start, cycle, dedup_cache, oi_history, threads,
                   dedup_call>>

\* the body raised after the venue was selected and before the sample is
\* appended: the per-symbol except takes it
PcmSymbolRaises ==
    /\ variant = "pcm"
    /\ pc = "sym"
    /\ Spend(1)
    /\ events' = events \cup {PcmEvent("select"), PcmEvent("error")}
    /\ PcmSymbolError
    /\ UNCHANGED <<config, harness, engine, HISTORY, now, start, cycle, dedup_cache,
                   oi_history, history, threads, attempts, notified, lookup,
                   dedup_call>>

\* loop_start = time.time(); all_tickers = fetch_all_spot_tickers(exchanges)
PcmStartCycle ==
    /\ variant = "pcm"
    /\ pc = "start"
    /\ cycle < (IF Len(futures_symbols) > 1 THEN PairMaxCycles
                ELSE PcmMaxCycles)
    /\ start' = now
    /\ cycle' = cycle + 1
    /\ idx' = 1
    /\ pc' = "sym"
    /\ UNCHANGED <<config, harness, engine, HISTORY, events, now, deviations, dedup_cache, oi_history, history,
                   threads, attempts, notified, lookup, dedup_call>>

\* sleep_time = max(1.0, LOOP_INTERVAL - elapsed)
PcmSleepTime(elapsed) == Max(1, LOOP_INTERVAL - elapsed)

PcmSleep ==
    /\ variant = "pcm"
    /\ pc = "sleep"
    /\ \E lag \in SleepLags :
         /\ Spend(Dev(lag # 0))
         /\ now' = now + PcmSleepTime(now - start) + lag
    /\ pc' = "start"
    /\ UNCHANGED <<config, harness, engine, HISTORY, events, idx, start, cycle, dedup_cache, oi_history,
                   history, threads, attempts, notified, lookup, dedup_call>>

\* except Exception as e: logger.warning("Main loop error"), and main goes
\* on to compute its sleep
PcmLoopError == idx' = idx /\ pc' = "sleep"

\* fetch_all_spot_tickers raised before the first base was taken up
PcmCycleError ==
    /\ variant = "pcm"
    /\ pc = "sym"
    /\ idx = 1
    /\ Spend(1)
    /\ events' = events \cup
                    {[what |-> "cycle_error", symbol |-> "", cycle |-> cycle]}
    /\ PcmLoopError
    /\ UNCHANGED <<config, harness, engine, HISTORY, now, start, cycle, dedup_cache,
                   oi_history, history, threads, attempts, notified, lookup,
                   dedup_call>>

\* KeyboardInterrupt passes both handlers of main and is taken under
\* `if __name__ == "__main__"`, which logs "Stopped by user"
PcmInterruptRaised == idx' = idx /\ pc' = "stopped"

\* the stop signal arrives while a base is processed or the loop sleeps
PcmInterrupt ==
    /\ variant = "pcm"
    /\ pc \in {"sym", "sleep"}
    /\ events' = events \cup {PcmEvent("interrupt")}
    /\ PcmInterruptRaised
    /\ UNCHANGED <<config, harness, engine, HISTORY, now, start, cycle, deviations,
                   dedup_cache, oi_history, history, threads, attempts,
                   notified, lookup, dedup_call>>

NextPcm ==
    \/ PcmStartCycle
    \/ PcmSymbol
    \/ PcmSleep

\* one base, taken from the futures venue's list
PcmSetup ==
    /\ variant = "pcm"
    /\ futures_symbols = <<"BTC">>
    /\ spot_symbols = {}
    /\ HISTORY = <<>>
    /\ push_config = PushOff
    /\ NoHarness

\* TELEGRAM_BOT_TOKEN, TELEGRAM_CHAT_ID and WECOM_WEBHOOK_URL are set
PcmConfigured == configured = {PcmChannels[i] : i \in 1..Len(PcmChannels)}

InitPcm == PcmSetup /\ PcmConfigured /\ InitCommon

SpecPcm == InitPcm /\ [][NextPcm]_vars

\* two bases, so that a base has a later one in its cycle
PcmPairSetup ==
    /\ variant = "pcm"
    /\ futures_symbols = <<"BTC", "ETH">>
    /\ spot_symbols = {}
    /\ HISTORY = <<>>
    /\ push_config = PushOff
    /\ NoHarness

InitPcmPair == PcmPairSetup /\ PcmConfigured /\ InitCommon

SpecPcmPair == InitPcmPair /\ [][NextPcm]_vars

----------------------------------------------------------------------------
(* The functions of the programs applied to inputs drawn from bounded sets *)

\* no program runs while a function is applied on its own
InitFunction(name) ==
    /\ variant = name
    /\ futures_symbols = <<>>
    /\ spot_symbols = {}
    /\ configured = {}
    /\ HISTORY = <<>>
    /\ push_config = PushOff
    /\ output = None
    /\ InitCommon

Idle == <<now, pc, idx, start, cycle, deviations, dedup_cache, oi_history,
          history, threads, attempts, notified, lookup, dedup_call>>

(* the spot rule: src/monitor.py check_spot_alert 310-322 and
   src/python:crypto_monitor.py get_spot_1m_metrics 219-230, main 376 *)

\* prices in units of 0.5 (200 is 100.0, 205 is 102.5), base volumes in units
\* of 2, so that price * volume is the notional volume in quote currency
SpotPrevCloses == {0, 200, 240, 250}

SpotOpens == {0, 200, 250}

SpotCloses == {205, 245, 250, 254, 255}

SpotVolumes == {0, 195, 199, 200, 293}

SpotInputs ==
    [prev : SpotPrevCloses, o : SpotOpens, c : SpotCloses, vol : SpotVolumes]

\* monitor.py evaluates the candle (o, c, vol); python:crypto_monitor.py the
\* closes of the last two candles and the volume of the last
ApplySpotRule ==
    /\ variant = "spot_rule"
    /\ output = None
    /\ output' =
         [monitor |-> SpotFires([o |-> input.o, c |-> input.c,
                                 vol |-> input.vol]),
          pcm     |-> PcmSpotRule([prev |-> input.prev, last |-> input.c,
                                   vol |-> input.vol])]
    /\ UNCHANGED <<config, HISTORY, events, engine, input, Idle>>

InitSpotRule == InitFunction("spot_rule") /\ input \in SpotInputs

SpecSpotRule == InitSpotRule /\ [][ApplySpotRule]_vars

(* the open-interest rule: src/monitor.py 353-356,
   src/python:crypto_monitor.py 399-401, src/crypto_spy.py 120-121 *)

\* crypto_spy.py: if old and (o - old) / old > 0.05
SpyOIRule(o, old) ==
    /\ old # 0
    /\ IF old > 0 THEN (o - old) * 100 > 5 * old
                  ELSE (o - old) * 100 < 5 * old

OIPriors == {-1000, 0, 20, 1000, 2000, 3000}

OINows == {-1100, -1000, 0, 21, 1000, 1049, 1050, 1051, 2100, 3149}

OIInputs == [prior : OIPriors, now : OINows]

ApplyOIRule ==
    /\ variant = "oi_rule"
    /\ output = None
    /\ output' =
         [monitor |-> MonOIRule(input.now, input.prior),
          pcm     |-> PcmOIRule([oi |-> <<input.now>>],
                                [oi |-> <<input.prior>>]),
          spy     |-> SpyOIRule(input.now, input.prior)]
    /\ UNCHANGED <<config, HISTORY, events, engine, input, Idle>>

InitOIRule == InitFunction("oi_rule") /\ input \in OIInputs

SpecOIRule == InitOIRule /\ [][ApplyOIRule]_vars

(* per-symbol source selection: src/python:crypto_monitor.py
   get_best_spot_exchange_for_symbol 157-201, src/crypto_spy.py best_spot_ex
   70-85 *)

\* the candidate venues, in the order the programs iterate them
SpotVenues == <<"binance", "bybit", "okx">>

\* what a venue answers for the symbol: it does not list it, the fetch
\* raises, or a ticker with a 24h quote volume (0 when the field is empty)
VenueAnswers ==
    {<<"absent">>, <<"raise">>, <<"vol", 0>>, <<"vol", 2000000>>,
     <<"vol", 5000000>>}

\* for name, ex in exchanges.items(): ... continue on absence or exception;
\* if qvol > best_qvol: best_qvol = qvol; best_name = name
RECURSIVE BestFrom(_, _, _, _)
BestFrom(answers, i, best_name, best_qvol) ==
    IF i > Len(SpotVenues) THEN best_name
    ELSE IF answers[i][1] = "vol" /\ answers[i][2] > best_qvol
         THEN BestFrom(answers, i + 1, <<SpotVenues[i]>>, answers[i][2])
         ELSE BestFrom(answers, i + 1, best_name, best_qvol)

\* the same scan with >= : the last of several equal volumes wins
RECURSIVE BestFromLast(_, _, _, _)
BestFromLast(answers, i, best_name, best_qvol) ==
    IF i > Len(SpotVenues) THEN best_name
    ELSE IF answers[i][1] = "vol" /\ answers[i][2] >= best_qvol
         THEN BestFromLast(answers, i + 1, <<SpotVenues[i]>>, answers[i][2])
         ELSE BestFromLast(answers, i + 1, best_name, best_qvol)

\* mutant: qvol >= best_qvol
get_best_last_of_equals(answers) == BestFromLast(answers, 1, None, 0)

\* best_name = None; best_qvol = 0.0; ...; return best_name, best_ex or None
get_best_spot_exchange_for_symbol(answers) == BestFrom(answers, 1, None, 0)

\* best, best_vol = None, 0; ...; if vol > best_vol: ...; return best
best_spot_ex(answers) == BestFrom(answers, 1, None, 0)

SelectInputs == [1..Len(SpotVenues) -> VenueAnswers]

ApplySelect ==
    /\ variant = "select"
    /\ output = None
    /\ output' = [pcm |-> get_best_spot_exchange_for_symbol(input),
                  spy |-> best_spot_ex(input)]
    /\ UNCHANGED <<config, HISTORY, events, engine, input, Idle>>

InitSelect == InitFunction("select") /\ input \in SelectInputs

SpecSelect == InitSelect /\ [][ApplySelect]_vars

(* venue selection at start-up: src/monitor.py
   estimate_exchange_24h_quote_volume 128-154, pick_top_spot_exchange
   157-180 *)

SPOT_CANDIDATES == <<"binance", "okx", "bybit", "kucoin">>

\* what a candidate does: its constructor or load_markets raises, its
\* fetch_tickers raises, or its tickers sum to a 24h quote volume
CandidateAnswers ==
    {<<"raise">>, <<"tickers_failed">>, <<"vol", 2000000>>,
     <<"vol", 5000000>>}

\* except Exception: return 0.0; otherwise the sum of the quote volumes
estimate_exchange_24h_quote_volume(answer) ==
    IF answer[1] = "vol" THEN answer[2] ELSE 0

\* for ex_id in SPOT_CANDIDATES: try: ...; if vol > best_vol: ... except: log
RECURSIVE PickFrom(_, _, _, _)
PickFrom(answers, i, best_ex, best_vol) ==
    IF i > Len(SPOT_CANDIDATES) THEN best_ex
    ELSE IF answers[i][1] # "raise"
            /\ estimate_exchange_24h_quote_volume(answers[i]) > best_vol
         THEN PickFrom(answers, i + 1, <<SPOT_CANDIDATES[i]>>,
                       estimate_exchange_24h_quote_volume(answers[i]))
         ELSE PickFrom(answers, i + 1, best_ex, best_vol)

\* best_ex = None; best_vol = -1.0; ...; if best_ex is None: fall back to
\* ccxt.binance
pick_top_spot_exchange(answers) ==
    IF PickFrom(answers, 1, None, -1) = None
    THEN <<"binance">>
    ELSE PickFrom(answers, 1, None, -1)

PickInputs == [1..Len(SPOT_CANDIDATES) -> CandidateAnswers]

ApplyPickTop ==
    /\ variant = "pick_top"
    /\ output = None
    /\ output' = [monitor |-> pick_top_spot_exchange(input)]
    /\ UNCHANGED <<config, HISTORY, events, engine, input, Idle>>

InitPickTop == InitFunction("pick_top") /\ input \in PickInputs

SpecPickTop == InitPickTop /\ [][ApplyPickTop]_vars

(* the inter-cycle sleep: src/monitor.py run_forever 386-388 and
   src/python:crypto_monitor.py main 419-420 *)

\* elapsed = time.time() - start, in whole seconds
SleepInputs == 0..MaxElapsed

ApplySleep ==
    /\ variant = "sleep"
    /\ output = None
    /\ output' = [monitor |-> SleepSec(input), pcm |-> PcmSleepTime(input)]
    /\ UNCHANGED <<config, HISTORY, events, engine, input, Idle>>

InitSleep == InitFunction("sleep") /\ input \in SleepInputs

SpecSleep == InitSleep /\ [][ApplySleep]_vars

(* the symbols of a cycle: src/monitor.py Monitor.__init__ 243-247 and
   run_once 365-368, src/python:crypto_monitor.py main 335-338 *)

\* the symbols a futures venue may list, in the order of Python's str
Alphabet == <<"BTC", "ETH", "SOL">>

Rank(s) == CHOOSE i \in DOMAIN Alphabet : Alphabet[i] = s

\* the market listings: the symbols in some order, none of them twice
Listings ==
    {l \in UNION {[1..n -> {Alphabet[i] : i \in DOMAIN Alphabet}] :
                     n \in 0..Len(Alphabet)} :
        \A i, j \in DOMAIN l : l[i] = l[j] => i = j}

\* list.sort() / sorted(): insertion of the head into the sorted tail
RECURSIVE sorted(_)
sorted(l) ==
    IF l = <<>> THEN <<>>
    ELSE LET rest == sorted(Tail(l))
             before == SelectSeq(rest, LAMBDA s : Rank(s) < Rank(Head(l)))
             after == SelectSeq(rest, LAMBDA s : Rank(s) >= Rank(Head(l)))
         IN  before \o <<Head(l)>> \o after

\* run_once without the slice
run_once_symbols_unlimited(symbols, limit) == symbols

\* run_once: self.futures_symbols[:SYMBOLS_LIMIT] if SYMBOLS_LIMIT > 0 else
\* self.futures_symbols
run_once_symbols(symbols, limit) ==
    IF limit > 0 THEN Take(symbols, limit) ELSE symbols

\* main: bases = sorted(fut_map.keys()), cut to SYMBOLS_LIMIT when it is > 0
bases(listing, limit) ==
    IF limit > 0 THEN Take(sorted(listing), limit) ELSE sorted(listing)

LimitInputs == [listing : Listings, limit : 0..MaxLimit]

\* one more cycle: what run_once of monitor.py iterates over, and the bases
\* the loop of python:crypto_monitor.py iterates over
ApplyLimit ==
    /\ variant = "limit"
    /\ cycle < MaxCycles
    /\ cycle' = cycle + 1
    /\ output' = Append(output,
                        [monitor |-> run_once_symbols(sorted(input.listing),
                                                      input.limit),
                         pcm |-> bases(input.listing, input.limit)])
    /\ UNCHANGED <<config, HISTORY, events, engine, input, now, pc, idx,
                   start, deviations, dedup_cache, oi_history, history,
                   threads, attempts, notified, lookup, dedup_call>>

InitLimit == InitFunction("limit") /\ input \in LimitInputs

SpecLimit == InitLimit /\ [][ApplyLimit]_vars

(* the startup of src/crypto_monitor.py: create_default_config 540-562,
   load_config 497-538, main 564-582 *)

\* a number, a boolean and a string key of the configuration
ConfigKeys == {"monitor_interval", "enable_push", "webhook_url"}

\* load_config.default_config; the defaults that env_config passes to
\* os.getenv are the same values
default_config ==
    [monitor_interval |-> 60, enable_push |-> FALSE, webhook_url |-> ""]

\* what a config.json sets, and what the environment sets
FileValues ==
    [monitor_interval |-> 30, enable_push |-> TRUE, webhook_url |-> "file-hook"]

EnvValues ==
    [monitor_interval |-> 45, enable_push |-> TRUE, webhook_url |-> "env-hook"]

\* the files and environments: any of the keys set
Files == {Restrict(FileValues, S) : S \in SUBSET ConfigKeys}

Envs == {Restrict(EnvValues, S) : S \in SUBSET ConfigKeys}

\* isinstance(value, (int, float, bool)) for the values of the key
IsNumberOrBool(k) == k \in {"monitor_interval", "enable_push"}

\* env_config: os.getenv(NAME, default) converted, for every key
env_config(env) ==
    [k \in ConfigKeys |-> IF k \in DOMAIN env THEN env[k] ELSE default_config[k]]

\* load_config: default_config.update(file_config), then every entry of
\* env_config with `value or isinstance(value, (int, float, bool))` is
\* written over it
load_config(file, env) ==
    [k \in ConfigKeys |->
        IF IsNumberOrBool(k) \/ env_config(env)[k] # ""
        THEN env_config(env)[k]
        ELSE IF k \in DOMAIN file THEN file[k] ELSE default_config[k]]

\* create_default_config: nothing to do when config.json exists; otherwise
\* the dict literal is evaluated first and its `false` is an undefined name,
\* so NameError is raised before the file is opened
create_default_config(exists) ==
    [raised |-> ~exists, written |-> FALSE]

\* main up to start_monitoring: an exception of create_default_config or
\* load_config is logged and answered with return 1
main(exists, file, env) ==
    IF create_default_config(exists).raised
    THEN [result |-> "returned 1", config |-> None]
    ELSE [result |-> "monitoring", config |-> load_config(file, env)]

\* config.json is absent, or it is there with some keys
StartupInputs ==
    {i \in [exists : BOOLEAN, file : Files, env : Envs] :
        ~i.exists => i.file = <<>>}

ApplyStartup ==
    /\ variant = "startup"
    /\ output = None
    /\ output' = main(input.exists, input.file, input.env)
    /\ UNCHANGED <<config, HISTORY, events, engine, input, Idle>>

InitStartup == InitFunction("startup") /\ input \in StartupInputs

SpecStartup == InitStartup /\ [][ApplyStartup]_vars

----------------------------------------------------------------------------
(* src/crypto_spy.py : main, one pass over the symbols *)

SPY_HISTORY_MAXLEN == 6

\* ohlcv[-2][4], ohlcv[-1][4], ohlcv[-1][5] as python:crypto_monitor.py reads
\* them; spot_vol_price divides by ohlcv[-2][4] and answers (None, None) on
\* the ZeroDivisionError
SpySpotRule(k) ==
    /\ k.prev # 0
    /\ k.vol * k.last >= 50000
    /\ Abs(k.last - k.prev) * 100 >= 2 * Abs(k.prev)

\* send(msg): one requests.post to the WeCom webhook, failure logged
SpySend(m, ok) == {[msg |-> m, channel |-> "wecom", ok |-> ok]}

SpyEvent(what) ==
    [what |-> what, symbol |-> futures_symbols[idx], cycle |-> cycle]

\* a main() that goes over the symbols again and again
SpyAdvanceAround ==
    /\ idx' = IF idx < Len(futures_symbols) THEN idx + 1 ELSE 1
    /\ pc' = "sym"

SpyAdvance ==
    IF idx < Len(futures_symbols)
    THEN idx' = idx + 1 /\ pc' = "sym"
    ELSE idx' = idx /\ pc' = "done"

\* symbols = load_symbols(); HISTORY[s] = {"oi": deque(maxlen=6), "spot_ex": None}
SpyStart ==
    /\ variant = "spy"
    /\ pc = "start"
    /\ HISTORY' = [s \in {futures_symbols[i] : i \in 1..Len(futures_symbols)}
                      |-> [oi |-> <<>>, spot_ex |-> None]]
    /\ cycle' = cycle + 1
    /\ idx' = 1
    /\ pc' = "sym"
    /\ UNCHANGED <<config, harness, engine, events, now, start, deviations,
                   dedup_cache, oi_history, history, threads, attempts,
                   notified, lookup, dedup_call>>

\* the body of `for symbol in symbols`
SpySymbol ==
    /\ variant = "spy"
    /\ pc = "sym"
    /\ LET symbol == futures_symbols[idx] IN
       \/ \* o = oi(symbol); if o is None: continue
          /\ events' = events \cup {SpyEvent("oi_failed")}
          /\ UNCHANGED <<HISTORY, notified, attempts>>
       \/ \* the body raised: logging.warning, and the for loop goes on
          /\ events' = events \cup {SpyEvent("error")}
          /\ UNCHANGED <<HISTORY, notified, attempts>>
       \/ \E o \in OIValues, okOI \in BOOLEAN :
            LET q == DequeAppend(HISTORY[symbol].oi, o, SPY_HISTORY_MAXLEN)
                oiFires == Len(q) = SPY_HISTORY_MAXLEN /\ SpyOIRule(o, q[1])
                mOI == Msg("oi", symbol, None, now)
                sentOI == IF oiFires THEN {mOI} ELSE {}
                triedOI == IF oiFires THEN SpySend(mOI, okOI) ELSE {}
            IN
            /\ oiFires \/ okOI      \* an outcome only for a message sent
            /\ \E answers \in SelectInputs :
                 LET cached == HISTORY[symbol].spot_ex
                     ex_name == IF cached = None THEN best_spot_ex(answers)
                                ELSE cached
                     selected == IF cached = None THEN {SpyEvent("select")}
                                 ELSE {}
                 IN
                 /\ \* the venues are asked only when nothing is cached
                    cached = None
                      \/ answers = [i \in DOMAIN answers |-> <<"absent">>]
                 /\ HISTORY' = [HISTORY EXCEPT ![symbol] =
                                  [oi |-> q, spot_ex |-> ex_name]]
                 /\ \/ \* if ex_name is None: continue
                       /\ ex_name = None
                       /\ events' = events \cup {SpyEvent("spot")} \cup selected
                       /\ notified' = notified \cup sentOI
                       /\ attempts' = attempts \cup triedOI
                    \/ \* vol, chg = spot_vol_price(...); if vol is None: continue
                       /\ ex_name # None
                       /\ events' = events \cup {SpyEvent("spot")} \cup selected
                       /\ notified' = notified \cup sentOI
                       /\ attempts' = attempts \cup triedOI
                    \/ /\ ex_name # None
                       /\ \E k \in PcmCandles, okSpot \in BOOLEAN :
                            LET spotFires == SpySpotRule(k)
                                mSpot == Msg("spot", symbol, None, now)
                            IN
                            /\ spotFires \/ okSpot   \* as for okOI
                            /\ events' = events \cup selected
                                            \cup {SpyEvent("spot"),
                                                  SpyEvent("spot_rule")}
                            /\ notified' = notified \cup sentOI
                                 \cup (IF spotFires THEN {mSpot} ELSE {})
                            /\ attempts' = attempts \cup triedOI
                                 \cup (IF spotFires THEN SpySend(mSpot, okSpot)
                                       ELSE {})
    /\ SpyAdvance
    /\ UNCHANGED <<config, harness, engine, now, start, cycle, deviations,
                   dedup_cache, oi_history, history, threads, lookup,
                   dedup_call>>

NextSpy ==
    \/ SpyStart
    \/ SpySymbol

\* HISTORY = {} at import; the futures venue lists two contracts; the
\* import has passed `if not WECOM_WEBHOOK_URL: raise RuntimeError`
InitSpy ==
    /\ variant = "spy"
    /\ futures_symbols = <<"BTC", "ETH">>
    /\ spot_symbols = {}
    /\ configured = {"wecom"}
    /\ HISTORY = <<>>
    /\ push_config = PushOff
    /\ NoHarness
    /\ InitCommon

SpecSpy == InitSpy /\ [][NextSpy]_vars

----------------------------------------------------------------------------
(* src/crypto_monitor.py : EnhancedCryptoMonitor.start_monitoring and
   run_monitoring_cycle *)

\* config.get('monitor_interval', 60), the default of load_config
MONITOR_INTERVAL == 60

\* time.sleep(self.config.get('monitor_interval', 60)); start_time is not read
EcmSleepTime(took) == MONITOR_INTERVAL

\* load_config's defaults of price_change_threshold (percent),
\* volume_threshold and max_symbols; the slice taken of each market's list
PRICE_CHANGE_THRESHOLD == 5

VOLUME_THRESHOLD == 1000000

MAX_SYMBOLS == 30

PAIRS_PER_MARKET == 25

\* what the two exchangeInfo requests list (BTC trades on both markets), what
\* they list when they fail, and BinanceAPI.fallback_symbols
EcmListed == [spot |-> <<"BTC", "ETH">>, futures |-> <<"BTC">>]

NoListing == [spot |-> <<>>, futures |-> <<>>]

fallback_symbols == <<"BTC">>

\* get_trading_pairs: the spot pairs followed by the futures pairs, or
\* fallback_symbols when none was obtained or the request raised
get_trading_pairs(listed) ==
    LET symbols == Take(listed.spot, PAIRS_PER_MARKET)
                       \o Take(listed.futures, PAIRS_PER_MARKET)
    IN  IF symbols # <<>> THEN symbols ELSE fallback_symbols

\* get_monitored_symbols: all_symbols[:max_symbols]
get_monitored_symbols(listed) == Take(get_trading_pairs(listed), MAX_SYMBOLS)

\* entries of the 24hr ticker response: [price, change_24h, volume_24h]
Quiet == [price |-> 100, change_24h |-> 0, volume_24h |-> 0]
Zero  == [price |-> 0,   change_24h |-> 0, volume_24h |-> 0]
Spike == [price |-> 100, change_24h |-> 5, volume_24h |-> 0]
Drop  == [price |-> 100, change_24h |-> -5, volume_24h |-> 0]
Busy  == [price |-> 110, change_24h |-> 5, volume_24h |-> VOLUME_THRESHOLD]

Tickers == {Quiet, Zero, Spike, Drop, Busy}

\* the order in which the response lists the symbols
ResponseOrder == <<"BTC", "ETH">>

Listed(symbols) == {symbols[i] : i \in DOMAIN symbols}

\* the responses to one ticker request for `symbols`: the request fails, or
\* it answers with a ticker for some of them (an entry that does not parse is
\* skipped)
Responses(symbols) ==
    {[ok |-> FALSE, tickers |-> [s \in Listed(symbols) |-> Quiet]]}
        \cup {[ok |-> TRUE, tickers |-> f] :
                 f \in UNION {[S -> Tickers] : S \in SUBSET Listed(symbols)}}

\* the departures of a response from the quiet market
Unquiet(symbols, response) ==
    Dev(~response.ok)
        + Cardinality({s \in Listed(symbols) :
                          \/ s \notin DOMAIN response.tickers
                          \/ response.tickers[s] # Quiet})

\* get_24hr_ticker with one entry for every listing of a symbol
get_24hr_ticker_per_listing(symbols, response) ==
    IF ~response.ok THEN <<>>
    ELSE LET kept == SelectSeq(symbols,
                               LAMBDA s : s \in DOMAIN response.tickers)
         IN  [i \in DOMAIN kept |->
                 [symbol |-> kept[i], data |-> response.tickers[kept[i]]]]

\* get_24hr_ticker: the dict prices[symbol] of the tickers whose symbol is in
\* `symbols`, as its items in insertion order; {} when the request raised
get_24hr_ticker(symbols, response) ==
    IF ~response.ok THEN <<>>
    ELSE LET kept == SelectSeq(ResponseOrder,
                               LAMBDA s : /\ s \in DOMAIN response.tickers
                                          /\ s \in Listed(symbols))
         IN  [i \in DOMAIN kept |->
                 [symbol |-> kept[i], data |-> response.tickers[kept[i]]]]

\* AlertInfo(..., timestamp=datetime.now()), push_status PENDING; `cycle` is
\* the cycle that produced it
Alert(symbol, type, c, t) ==
    [symbol |-> symbol, alert_type |-> type, cycle |-> c, timestamp |-> t,
     push_status |-> "PENDING"]

\* check_alert_conditions with the interval change skipped when the stored
\* price is 0
check_alert_conditions_guarded(symbol, data, prev, c, t) ==
    LET day == IF Abs(data.change_24h) >= PRICE_CHANGE_THRESHOLD
               THEN <<Alert(symbol, IF data.change_24h > 0
                                    THEN "PRICE_SPIKE" ELSE "PRICE_DROP", c, t)>>
               ELSE <<>>
        volume == IF data.volume_24h >= VOLUME_THRESHOLD
                  THEN <<Alert(symbol, "VOLUME_SURGE", c, t)>>
                  ELSE <<>>
        known == symbol \in DOMAIN prev /\ prev[symbol] # 0
        interval == IF /\ known
                       /\ Abs(data.price - prev[symbol]) * 100
                              >= PRICE_CHANGE_THRESHOLD * prev[symbol]
                    THEN <<Alert(symbol, "INTERVAL_CHANGE", c, t)>>
                    ELSE <<>>
    IN  [raised |-> FALSE, alerts |-> day \o volume \o interval]

\* check_alert_conditions: the alerts of one symbol, or the ZeroDivisionError
\* of (current_price.price - prev_price) / prev_price
check_alert_conditions(symbol, data, prev, c, t) ==
    LET day == IF Abs(data.change_24h) >= PRICE_CHANGE_THRESHOLD
               THEN <<Alert(symbol, IF data.change_24h > 0
                                    THEN "PRICE_SPIKE" ELSE "PRICE_DROP", c, t)>>
               ELSE <<>>
        volume == IF data.volume_24h >= VOLUME_THRESHOLD
                  THEN <<Alert(symbol, "VOLUME_SURGE", c, t)>>
                  ELSE <<>>
        known == symbol \in DOMAIN prev
        raised == known /\ prev[symbol] = 0
        interval == IF /\ known
                       /\ ~raised
                       /\ Abs(data.price - prev[symbol]) * 100
                              >= PRICE_CHANGE_THRESHOLD * prev[symbol]
                    THEN <<Alert(symbol, "INTERVAL_CHANGE", c, t)>>
                    ELSE <<>>
    IN  [raised |-> raised,
         alerts |-> IF raised THEN <<>> ELSE day \o volume \o interval]

\* the loop of run_monitoring_cycle over current_prices.items(): all_alerts,
\* or what it held when check_alert_conditions raised
RECURSIVE CheckAll(_, _, _, _)
CheckAll(items, prev, c, t) ==
    IF items = <<>> THEN [raised |-> FALSE, alerts |-> <<>>]
    ELSE LET one == check_alert_conditions(Head(items).symbol,
                                           Head(items).data, prev, c, t)
             rest == CheckAll(Tail(items), prev, c, t)
         IN  IF one.raised THEN [raised |-> TRUE, alerts |-> <<>>]
             ELSE [raised |-> rest.raised, alerts |-> one.alerts \o rest.alerts]

\* PushService.should_push
should_push(symbol, t, last) ==
    /\ push_config.enable_push
    /\ t - (IF symbol \in DOMAIN last THEN last[symbol] ELSE 0)
           >= push_config.push_cooldown

\* send_alert that starts the cooldown whatever the outcome
send_alert_always_stamps(alert, t, last, raises) ==
    [status |-> IF ~should_push(alert.symbol, t, last) THEN "SKIPPED"
                ELSE IF push_config.webhook_url = "" THEN "SKIPPED"
                ELSE IF raises THEN "FAILED" ELSE "SUCCESS",
     last |-> Put(last, alert.symbol, t)]

\* send_alert that never looks at the cooldown
send_alert_no_cooldown(alert, t, last, raises) ==
    IF ~push_config.enable_push \/ push_config.webhook_url = ""
    THEN [status |-> "SKIPPED", last |-> last]
    ELSE IF raises THEN [status |-> "FAILED", last |-> last]
    ELSE [status |-> "SUCCESS", last |-> Put(last, alert.symbol, t)]

\* PushService.send_alert: the push status and last_push_time after the call;
\* `raises` says that building the message raised
send_alert(alert, t, last, raises) ==
    IF ~should_push(alert.symbol, t, last)
    THEN [status |-> "SKIPPED", last |-> last]
    ELSE IF push_config.webhook_url = ""
    THEN [status |-> "SKIPPED", last |-> last]
    ELSE IF raises THEN [status |-> "FAILED", last |-> last]
    ELSE [status |-> "SUCCESS", last |-> Put(last, alert.symbol, t)]

\* process_alerts that records nothing but the first alert
RECURSIVE process_alerts_first_only(_, _, _, _)
process_alerts_first_only(alerts, t, last, raises) ==
    IF alerts = <<>> THEN [sent |-> <<>>, last |-> last]
    ELSE LET one == send_alert(Head(alerts), t, last, raises)
         IN  [sent |-> <<[Head(alerts) EXCEPT !.push_status = one.status]>>,
              last |-> one.last]

\* process_alerts: every alert is sent and appended to alert_history; the
\* result holds the appended alerts and last_push_time after them
RECURSIVE process_alerts(_, _, _, _)
process_alerts(alerts, t, last, raises) ==
    IF alerts = <<>> THEN [sent |-> <<>>, last |-> last]
    ELSE LET one == send_alert(Head(alerts), t, last, raises)
             rest == process_alerts(Tail(alerts), t, one.last, FALSE)
         IN  [sent |-> <<[Head(alerts) EXCEPT !.push_status = one.status]>>
                           \o rest.sent,
              last |-> rest.last]

\* an update that keeps the price a symbol already has
UpdatePricesKeepsOld(prev, items) ==
    LET keys == {items[i].symbol : i \in DOMAIN items}
        priceOf(s) == (CHOOSE i \in DOMAIN items : items[i].symbol = s)
    IN  [s \in (DOMAIN prev) \cup keys |->
            IF s \in DOMAIN prev THEN prev[s] ELSE items[priceOf(s)].data.price]

\* previous_prices.update(current_prices)
UpdatePrices(prev, items) ==
    LET keys == {items[i].symbol : i \in DOMAIN items}
        priceOf(s) == (CHOOSE i \in DOMAIN items : items[i].symbol = s)
    IN  [s \in (DOMAIN prev) \cup keys |->
            IF s \in keys THEN items[priceOf(s)].data.price ELSE prev[s]]

CycleDurations == {0, QuickCycle, SlowCycle}

\* start_time = time.time()
EcmStartCycle ==
    /\ variant = "ecm"
    /\ pc = "start"
    /\ cycle < EcmMaxCycles
    /\ start' = now
    /\ cycle' = cycle + 1
    /\ pc' = "cycle"
    /\ UNCHANGED <<config, harness, engine, HISTORY, events, now, idx, deviations,
                   dedup_cache, oi_history, history, threads, attempts,
                   notified, lookup, dedup_call>>

\* run_monitoring_cycle: the universe is resolved anew, prices are fetched,
\* every priced symbol is checked, the alerts are processed, the results are
\* displayed (cycle_count += 1) and previous_prices is updated; no prices
\* returns (0, []) early and an exception raised on the way is logged and
\* answered with (0, [])
EcmRunCycle ==
    /\ variant = "ecm"
    /\ pc = "cycle"
    /\ \E listed \in {NoListing, EcmListed},
          took \in CycleDurations,
          raises \in BOOLEAN :
         LET symbols == get_monitored_symbols(listed) IN
         \E response \in Responses(symbols) :
            LET current_prices == get_24hr_ticker(symbols, response)
                checked == CheckAll(current_prices, previous_prices, cycle,
                                    now + took)
                result == IF current_prices = <<>> THEN "no_prices"
                          ELSE IF checked.raised THEN "error" ELSE "ok"
                done == process_alerts(checked.alerts, now + took,
                                       last_push_time, raises)
            IN  /\ Spend(Dev(listed = NoListing) + Dev(took # 0)
                           + Dev(raises) + Unquiet(symbols, response))
                /\ raises => /\ result = "ok"
                             /\ done.sent # <<>>
                             /\ done.sent[1].push_status = "FAILED"
                /\ futures_symbols' = symbols
                /\ now' = now + took
                /\ events' = events \cup
                     {[what |-> "cycle", symbol |-> "", cycle |-> cycle,
                       began |-> start, took |-> took, result |-> result,
                       resolved |-> listed # NoListing,
                       prices |-> current_prices,
                       previous |-> previous_prices]}
                /\ IF result = "ok"
                   THEN /\ alert_history' = alert_history \o done.sent
                        /\ last_push_time' = done.last
                        /\ cycle_count' = cycle_count + 1
                        /\ previous_prices' =
                               UpdatePrices(previous_prices, current_prices)
                   ELSE UNCHANGED engine
    /\ pc' = "sleep"
    /\ UNCHANGED <<variant, spot_symbols, configured, push_config, harness,
                   HISTORY, idx, start, cycle, dedup_cache, oi_history,
                   history, threads, attempts, notified, lookup, dedup_call>>

EcmSleep ==
    /\ variant = "ecm"
    /\ pc = "sleep"
    /\ now' = now + EcmSleepTime(now - start)
    /\ pc' = "start"
    /\ UNCHANGED <<config, harness, engine, HISTORY, events, idx, start, cycle,
                   deviations, dedup_cache, oi_history, history, threads,
                   attempts, notified, lookup, dedup_call>>

\* KeyboardInterrupt passes run_monitoring_cycle's `except Exception` and is
\* taken by start_monitoring, which prints the shutdown summary
EcmInterrupt ==
    /\ variant = "ecm"
    /\ pc \in {"cycle", "sleep"}
    /\ events' = events \cup
                    {[what |-> "interrupt", symbol |-> "", cycle |-> cycle]}
    /\ pc' = "stopped"
    /\ UNCHANGED <<config, harness, engine, HISTORY, now, idx, start, cycle,
                   deviations, dedup_cache, oi_history, history, threads,
                   attempts, notified, lookup, dedup_call>>

NextEcm ==
    \/ EcmStartCycle
    \/ EcmRunCycle
    \/ EcmSleep

\* EnhancedCryptoMonitor.__init__: no universe is resolved before the loop
EcmSetup ==
    /\ variant = "ecm"
    /\ futures_symbols = <<>>
    /\ spot_symbols = {}
    /\ configured = {}
    /\ HISTORY = <<>>
    /\ NoHarness

\* main() with load_config's defaults: pushing is disabled; its runs are
\* allowed EcmBudget departures from the quiet market
InitEcm ==
    /\ EcmSetup
    /\ push_config = PushOff
    /\ InitProgram(MaxDeviations - EcmBudget)

SpecEcm == InitEcm /\ [][NextEcm]_vars

\* main() with a configuration that enables pushing, sets a webhook URL, or
\* both, then with a push_cooldown shorter than the default
PushConfigs ==
    {[webhook_url |-> "hook", enable_push |-> TRUE,
      push_cooldown |-> ShortCooldown],
     [PushOff EXCEPT !.webhook_url = "hook"],
     [PushOff EXCEPT !.enable_push = TRUE]}

InitPush ==
    /\ EcmSetup
    /\ push_config \in PushConfigs
    /\ InitProgram(MaxDeviations - EcmBudget)

SpecPush == InitPush /\ [][NextEcm]_vars

----------------------------------------------------------------------------
(* Either program *)

Init == InitMonitor \/ InitPcm \/ InitSpy

Next == NextMonitor \/ NextPcm \/ NextSpy

Spec == Init /\ [][Next]_vars

\* the programs with the exceptions a symbol may raise, python:crypto_monitor.py
\* with two bases
NextIsolation == Next \/ MonSymbolRaises \/ PcmSymbolRaises

SpecIsolation ==
    (InitMonitor \/ InitPcmPair \/ InitSpy) /\ [][NextIsolation]_vars

----------------------------------------------------------------------------
(* The polling loops with the exceptions that leave a cycle and with the
   stop signal *)

\* the runs of monitor.py and python:crypto_monitor.py explored here are
\* allowed FaultBudget departures from the quiet market
InitFaults ==
    \/ /\ MonitorSetup
       /\ configured = Channels
       /\ InitProgram(MaxDeviations - FaultBudget)
    \/ /\ PcmPairSetup
       /\ PcmConfigured
       /\ InitProgram(MaxDeviations - FaultBudget)
    \/ /\ EcmSetup
       /\ push_config = PushOff
       /\ InitProgram(MaxDeviations - FaultBudget)

\* monitor.py and python:crypto_monitor.py started with none of the channel
\* credentials in the environment: neither constructor looks at them
InitUnconfigured ==
    /\ MonitorSetup \/ PcmSetup
    /\ configured = {}
    /\ InitProgram(MaxDeviations - FaultBudget)

SpecUnconfigured == InitUnconfigured /\ [][NextMonitor \/ NextPcm]_vars

NextFaults ==
    \/ NextMonitor
    \/ NextPcm
    \/ NextEcm
    \/ MonSymbolRaises
    \/ PcmSymbolRaises
    \/ MonCycleError
    \/ PcmCycleError
    \/ MonInterrupt
    \/ PcmInterrupt
    \/ EcmInterrupt

SpecFaults == InitFaults /\ [][NextFaults]_vars

\* the steps of the main thread: the interpreter keeps running it, every
\* request it makes has a timeout and time.sleep returns
MainThread ==
    \/ MonStartCycle \/ MonCheckSpot \/ MonCheckOI \/ MonSleep
    \/ MonSymbolRaises \/ MonCycleError
    \/ PcmStartCycle \/ PcmSymbol \/ PcmSleep
    \/ PcmSymbolRaises \/ PcmCycleError
    \/ EcmStartCycle \/ EcmRunCycle \/ EcmSleep

SpecFaultsFair == SpecFaults /\ WF_vars(MainThread)

----------------------------------------------------------------------------
(* Properties *)

\* the two notifications are of one kind and for one symbol
SameKindAndSymbol(m1, m2) == m1.kind = m2.kind /\ m1.symbol = m2.symbol

C2_NoRepeatInNextCycle ==
    \A m1, m2 \in notified :
        SameKindAndSymbol(m1, m2) => m2.cycle # m1.cycle + 1

\* the 5-minute bucket of an OI evaluation made at second t
BucketAt(t) == IntDiv(utcnow_ms(t) - WindowMs, WindowMs)

\* C3 as stated: the same data point (symbol and candle timestamp; symbol and
\* 5-minute bucket) is notified at most once.
C3_OneAlertPerDataPoint ==
    \A m1, m2 \in notified :
        /\ (/\ m1.kind = "oi" /\ m2.kind = "oi" /\ m1.symbol = m2.symbol
            /\ BucketAt(m1.at) = BucketAt(m2.at)) => m1 = m2
        /\ (/\ m1.kind = "spot" /\ m2.kind = "spot" /\ m1.symbol = m2.symbol
            /\ m1.key[3] = m2.key[3]) => m1 = m2

\* C3 amended: the same 5-minute bucket of a symbol is notified at most once,
\* and the same candle of a symbol is notified at most once by evaluations
\* less than DEDUP_TTL_SECONDS apart.
C3_OneAlertPerDataPointInTTL ==
    \A m1, m2 \in notified :
        /\ (/\ m1.kind = "oi" /\ m2.kind = "oi" /\ m1.symbol = m2.symbol
            /\ BucketAt(m1.at) = BucketAt(m2.at)) => m1 = m2
        /\ (/\ m1.kind = "spot" /\ m2.kind = "spot" /\ m1.symbol = m2.symbol
            /\ m1.key[3] = m2.key[3]
            /\ Abs(m1.at - m2.at) < DEDUP_TTL_SECONDS) => m1 = m2

\* an OI bucket that was notified is evaluated again and suppressed
C3_Witness ==
    /\ dedup_call.skip
    /\ dedup_call.key[1] = "oi"
    /\ \E m \in notified :
         /\ m.key = dedup_call.key
         /\ m.at < dedup_call.at
         /\ BucketAt(m.at) = BucketAt(dedup_call.at)

\* C4: _dedup(key) answers 'suppress' exactly when a prior timestamp exists
\* with now - prior < DEDUP_TTL_SECONDS, and then leaves the timestamp as it
\* was; otherwise it records now for the key and the alert is handed on.
C4_DedupContract ==
    dedup_call # NoDedupCall =>
        LET c == dedup_call IN
        /\ c.skip <=> (c.prior # None
                        /\ c.at - c.prior[1] < DEDUP_TTL_SECONDS)
        /\ c.skip <=> ~(\E m \in notified : m.key = c.key /\ m.at = c.at)
        /\ c.at = now =>
             /\ c.key \in DOMAIN dedup_cache
             /\ dedup_cache[c.key] = IF c.skip THEN c.prior[1] ELSE c.at

\* a key whose prior timestamp has expired is recorded anew
C4_Witness ==
    /\ dedup_call.prior # None
    /\ ~dedup_call.skip
    /\ dedup_call.at = now
    /\ dedup_cache[dedup_call.key] = now

\* C5: right after a _dedup call that records a key, no entry of dedup_cache
\* has age >= DEDUP_TTL_SECONDS, and the cache holds only keys fired within
\* the last DEDUP_TTL_SECONDS.
C5_PurgedAfterRecord ==
    (dedup_call # NoDedupCall /\ ~dedup_call.skip /\ dedup_call.at = now) =>
        /\ \A k \in DOMAIN dedup_cache :
             now - dedup_cache[k] < DEDUP_TTL_SECONDS
        /\ DOMAIN dedup_cache \subseteq
             {m.key : m \in {x \in notified :
                               now - x.at < DEDUP_TTL_SECONDS}}

\* a recording call has purged a key that had fired before
C5_Witness ==
    /\ dedup_call # NoDedupCall
    /\ ~dedup_call.skip
    /\ dedup_call.at = now
    /\ \E m \in notified : m.key \notin DOMAIN dedup_cache

\* C6: a failed channel send leaves the key of its alert recorded, with the
\* second the alert fired, for as long as the cooldown lasts.
C6_FailedSendKeepsRecord ==
    \A a \in attempts :
        (~a.ok /\ now - a.msg.at < DEDUP_TTL_SECONDS) =>
            /\ a.msg.key \in DOMAIN dedup_cache
            /\ dedup_cache[a.msg.key] = a.msg.at

\* an alert whose send failed is evaluated again and suppressed
C6_Witness ==
    \E a \in attempts :
        /\ ~a.ok
        /\ dedup_call.key = a.msg.key
        /\ dedup_call.skip
        /\ dedup_call.at > a.msg.at

\* the retention the rolling open-interest window is said to keep (10 minutes)
RetentionMs == 10 * 60 * 1000

\* C7: after an update of a symbol's open-interest history, the history holds
\* no point older than the retention, and the prior point the rule compares
\* with is not older than the retention.
C7_WindowWithinRetention ==
    (variant = "monitor" /\ lookup # NoLookup
                         /\ lookup.at = utcnow_ms(now)) =>
        LET q == oi_history[lookup.symbol] IN
        /\ \A i \in 1..Len(q) : q[i][1] >= lookup.at - RetentionMs
        /\ lookup.older # None => lookup.older[1] >= lookup.at - RetentionMs

\* C8: in every symbol's open-interest history the timestamps are
\* non-decreasing in sequence order.
C8_TimestampsNonDecreasing ==
    \A s \in SymbolSet :
        /\ \A i, j \in 1..Len(oi_history[s]) :
             i < j => oi_history[s][i][1] <= oi_history[s][j][1]
        /\ \A i, j \in 1..Len(history[s]) :
             i < j => history[s][i].ts <= history[s][j].ts

\* a full 6-slot history that has dropped its oldest entry
C8_Witness ==
    \E s \in SymbolSet :
        /\ Len(history[s]) = HISTORY_MAXLEN
        /\ cycle > HISTORY_MAXLEN
        /\ history[s][1].ts < history[s][HISTORY_MAXLEN].ts

\* C9: the prior-sample lookup of check_futures_oi_alert uses the cutoff
\* now - 5 minutes, answers none when no point of the history is at or
\* before the cutoff, and otherwise answers a point of the history at or
\* before the cutoff that no other such point is more recent than.
C9_LookupMostRecentAtOrBefore ==
    (variant = "monitor" /\ lookup # NoLookup) =>
        LET q == oi_history[lookup.symbol]
            hits == {i \in 1..Len(q) : q[i][1] <= lookup.cutoff}
        IN
        /\ lookup.cutoff = lookup.at - 5 * 60 * 1000
        /\ IF hits = {}
           THEN lookup.older = None
           ELSE /\ lookup.older # None
                /\ \E i \in hits : q[i] = lookup.older
                /\ \A j \in hits : q[j][1] <= lookup.older[1]

\* the lookup passed over an earlier point that is at or before the cutoff too
C9_Witness ==
    /\ variant = "monitor"
    /\ lookup.older # None
    /\ \E i \in 1..Len(oi_history[lookup.symbol]) :
         oi_history[lookup.symbol][i][1] < lookup.older[1]

\* C10: whenever main() compares open interest, the prior sample (the oldest
\* of the 6 entries) was taken at or before now - 5 minutes and no other
\* entry taken at or before now - 5 minutes is more recent.
C10_PrevIsMostRecentAtOrBefore ==
    (variant = "pcm" /\ lookup # NoLookup /\ lookup.at = now) =>
        LET h == history[lookup.symbol]
            prev == lookup.older[1]
        IN
        /\ prev.ts <= lookup.cutoff
        /\ \A i \in 1..Len(h) :
             h[i].ts <= lookup.cutoff => h[i].ts <= prev.ts

\* the spot rule as specified: notional volume v, closes prev and last
SpotRuleSpecified(v, prev, last) ==
    v >= 50000 /\ Abs(last - prev) * 100 >= 2 * prev

\* C11 as stated: in monitor.py and python:crypto_monitor.py the spot rule
\* fires exactly when the latest notional volume is >= 50,000 and the change
\* between the latest close and the close one interval before is >= 2 %.
C11_SpotRuleCloseToClose ==
    (variant = "spot_rule" /\ output # None /\ input.prev > 0) =>
        LET fires == SpotRuleSpecified(input.c * input.vol, input.prev,
                                       input.c)
        IN  (output.pcm <=> fires) /\ (output.monitor <=> fires)

\* C11 amended: python:crypto_monitor.py fires exactly when the notional
\* volume is >= 50,000 and the change from the previous close (> 0) to the
\* latest close is >= 2 %; monitor.py fires exactly when the notional volume
\* of the last closed candle is >= 50,000 and the change from that candle's
\* open (non-zero) to its close is >= 2 %.
C11_SpotRulePerVariant ==
    (variant = "spot_rule" /\ output # None) =>
        /\ output.pcm <=>
             (input.prev > 0 /\ SpotRuleSpecified(input.c * input.vol,
                                                  input.prev, input.c))
        /\ output.monitor <=>
             (input.o # 0 /\ SpotRuleSpecified(input.c * input.vol,
                                               input.o, input.c))

\* closes 100.0 then 102.5 with notional volume 60,065: both programs fire
C11_Witness ==
    /\ variant = "spot_rule"
    /\ input = [prev |-> 200, o |-> 200, c |-> 205, vol |-> 293]
    /\ output # None
    /\ output.pcm
    /\ output.monitor

\* C12: in monitor.py, python:crypto_monitor.py and crypto_spy.py the
\* open-interest rule fires exactly when oi_prior > 0 and
\* (oi_now - oi_prior) / oi_prior >= 5 %.
C12_OIRuleExact ==
    (variant = "oi_rule" /\ output # None) =>
        LET fires == /\ input.prior > 0
                     /\ (input.now - input.prior) * 100 >= 5 * input.prior
        IN  /\ output.monitor <=> fires
            /\ output.pcm <=> fires
            /\ output.spy <=> fires

EarliestMax(S) ==
    IF S = {} THEN None
    ELSE LET i == CHOOSE i \in S :
                    \A j \in S : \/ input[j][2] < input[i][2]
                                 \/ (input[j][2] = input[i][2] /\ i <= j)
         IN  <<SpotVenues[i]>>

\* C14 as stated: selection returns the candidate with the maximum 24h quote
\* volume among the candidates that list the symbol and answered, the
\* earliest in the candidate order when several share the maximum.
C14_SelectMaxAmongAnswering ==
    (variant = "select" /\ output # None) =>
        LET answered == {i \in DOMAIN input : input[i][1] = "vol"} IN
        /\ output.pcm = EarliestMax(answered)
        /\ output.spy = EarliestMax(answered)

\* C14 amended: selection returns the candidate with the maximum 24h quote
\* volume among the candidates that list the symbol and answered with a
\* volume above zero, the earliest of them on a tie, and none when there is
\* no such candidate.
C14_SelectMaxAmongPositive ==
    (variant = "select" /\ output # None) =>
        LET positive == {i \in DOMAIN input :
                           input[i][1] = "vol" /\ input[i][2] > 0} IN
        /\ output.pcm = EarliestMax(positive)
        /\ output.spy = EarliestMax(positive)

\* A does not list the symbol, B has 2,000,000 and C 5,000,000: C is chosen
C14_Witness ==
    /\ variant = "select"
    /\ input = <<<<"absent">>, <<"vol", 2000000>>, <<"vol", 5000000>>>>
    /\ output # None
    /\ output.pcm = <<"okx">>
    /\ output.spy = <<"okx">>

\* C15: a candidate whose volume fetch failed is never the selected source,
\* and when every candidate fails the selection result is none.
C15_FailedVenueNeverSelected ==
    (variant = "pick_top" /\ output # None) =>
        LET failed == {i \in DOMAIN input : input[i][1] # "vol"} IN
        /\ \A i \in failed : output.monitor # <<SPOT_CANDIDATES[i]>>
        /\ failed = DOMAIN input => output.monitor = None

\* C16: in every cycle of python:crypto_monitor.py each symbol's open
\* interest is fetched and appended to its history, also when the source
\* selection gave none for the symbol.
C16_FuturesProceedWithoutSpotSource ==
    (variant = "pcm" /\ pc = "sleep") =>
        \A i \in 1..Len(futures_symbols) :
            LET h == history[futures_symbols[i]] IN
            /\ [what |-> "select", symbol |-> futures_symbols[i],
                cycle |-> cycle] \in events
            /\ Len(h) > 0
            /\ h[Len(h)].ts >= start

\* C17: in crypto_spy.py a symbol whose open-interest fetch failed still
\* has its spot check made in the same pass.
C17_SpotCheckedWhenOIFails ==
    (variant = "spy" /\ pc = "done") =>
        \A e \in events :
            e.what = "oi_failed" =>
                [what |-> "spot", symbol |-> e.symbol, cycle |-> e.cycle]
                    \in events

\* C18: the spot venue of a symbol is not selected anew in two polling
\* cycles that follow one another.
C18_SelectionNotEveryCycle ==
    \A e1, e2 \in events :
        (e1.what = "select" /\ e2.what = "select" /\ e1.symbol = e2.symbol)
            => e2.cycle # e1.cycle + 1

\* C19: a failed send on one channel does not keep the alert from the other
\* channel: with send_alert every channel has its attempt, with notify_all
\* every channel has its attempt made or its sender thread still to run.
C19_ChannelFailureIsolated ==
    \A a \in attempts :
        ~a.ok =>
            /\ variant = "pcm" =>
                 \A i \in 1..Len(PcmChannels) :
                     \E b \in attempts :
                         b.msg = a.msg /\ b.channel = PcmChannels[i]
            /\ variant = "monitor" =>
                 \A ch \in Channels :
                     \/ \E b \in attempts : b.msg = a.msg /\ b.channel = ch
                     \/ [msg |-> a.msg, channel |-> ch] \in threads

\* send_telegram failed and send_wecom was attempted for the same alert
C19_Witness ==
    /\ variant = "pcm"
    /\ \E a, b \in attempts :
         /\ a.msg = b.msg
         /\ a.channel = "telegram" /\ ~a.ok
         /\ b.channel = "wecom"

\* C20: no alert has two attempts on one channel, and a channel whose
\* attempt was made has no sender left to run for that alert.
C20_AtMostOneAttemptPerChannel ==
    /\ \A a, b \in attempts :
         (a.msg = b.msg /\ a.channel = b.channel) => a = b
    /\ \A a \in attempts :
         [msg |-> a.msg, channel |-> a.channel] \notin threads

\* an attempt failed and a later cycle has run to its end
C20_Witness ==
    /\ variant = "monitor"
    /\ pc = "sleep"
    /\ threads = {}
    /\ \E a \in attempts : ~a.ok /\ cycle > a.msg.cycle

\* C21: whenever run_forever starts its time.sleep, no sender thread
\* started by notify_all is still to make its attempt
C21_DispatchedBeforeSleep ==
    [][(variant = "monitor" /\ pc = "sleep" /\ pc' = "start")
         => threads = {}]_vars

\* the symbol at position j of the cycle numbered c is behind the scheduler
Passed(j, c) == cycle > c \/ pc \in {"sleep", "start", "done"} \/ idx > j

\* C22: a symbol whose processing raised is skipped for the rest of its cycle
\* (monitor.py takes no open-interest sample for it, the other two programs
\* append nothing for it), and the loop reaches every later symbol of that
\* cycle
C22_SymbolErrorIsolated ==
    \A e \in events :
        e.what = "error" =>
          /\ \A f \in events :
               (f.symbol = e.symbol /\ f.cycle = e.cycle)
                   => f.what \in {"check", "select", "error"}
          /\ \A j \in 1..Len(futures_symbols) :
               (/\ \E i \in 1..(j - 1) : futures_symbols[i] = e.symbol
                /\ Passed(j, e.cycle))
                   => \E f \in events : /\ f.symbol = futures_symbols[j]
                                        /\ f.cycle = e.cycle

\* the first symbol raised and the cycle went on to its end
C22_Witness ==
    /\ pc = "sleep"
    /\ Len(futures_symbols) > 1
    /\ \E e \in events : /\ e.what = "error"
                         /\ e.symbol = futures_symbols[1]
                         /\ e.cycle = cycle

\* the sleep the claim describes for a target interval and an elapsed time
SleepSpecified(interval, elapsed, sleep) ==
    /\ sleep >= 1
    /\ elapsed >= interval => sleep = 1
    /\ elapsed < interval => sleep = interval - elapsed

\* C23: both schedulers sleep max(1, interval - elapsed): 1 s when the cycle
\* took the interval or longer, what is left of the interval otherwise
C23_SleepIsRestOfInterval ==
    (variant = "sleep" /\ output # None) =>
        /\ SleepSpecified(DEFAULT_LOOP_INTERVAL, input, output.monitor)
        /\ SleepSpecified(LOOP_INTERVAL, input, output.pcm)
        /\ output.monitor = Max(1, DEFAULT_LOOP_INTERVAL - input)
        /\ output.pcm = Max(1, LOOP_INTERVAL - input)

\* a cycle that overran the longer of the two intervals
C23_Witness ==
    /\ variant = "sleep"
    /\ output # None
    /\ input > LOOP_INTERVAL
    /\ output.pcm = 1

\* C24: two consecutive cycles of start_monitoring start monitor_interval
\* apart whenever the first of them took less than the interval
C24_PeriodIsInterval ==
    (variant = "ecm" /\ pc = "start") =>
        \A e \in events :
            (e.what = "cycle" /\ e.cycle = cycle /\ e.took < MONITOR_INTERVAL)
                => now - e.began = MONITOR_INTERVAL

\* the sleep a scheduler takes after a cycle that ended without an exception,
\* `elapsed` seconds after the cycle started
NormalSleep(elapsed) ==
    CASE variant = "monitor" -> SleepSec(elapsed)
      [] variant = "pcm" -> PcmSleepTime(elapsed)
      [] OTHER -> EcmSleepTime(elapsed)

\* an exception left the cycle that is now ending
CycleRaised ==
    \E e \in events :
        /\ e.cycle = cycle
        /\ \/ e.what = "cycle_error"
           \/ e.what = "cycle" /\ e.result = "error"

\* C25: the sleep that follows a cycle an exception has left is longer than
\* the sleep the scheduler takes after a cycle without one
C25_BackoffAfterCycleError ==
    [][(pc = "sleep" /\ pc' = "start" /\ CycleRaised)
          => now' - now > NormalSleep(now - start)]_vars

\* the number of cycles the running program is followed for
LastCycle ==
    CASE variant = "monitor" -> MaxCycles
      [] variant = "pcm" -> (IF Len(futures_symbols) > 1 THEN PairMaxCycles
                             ELSE PcmMaxCycles)
      [] OTHER -> EcmMaxCycles

\* the loop has ended, and whether a stop signal ended it
Ended == pc \notin {"start", "spot", "oi", "sym", "cycle", "sleep"}

Interrupted == pc = "stopped" /\ \E e \in events : e.what = "interrupt"

\* C26: as long as cycles are followed, every cycle is followed by the start
\* of the next one unless a stop signal arrives, whether or not an exception
\* was raised in it (cycles are counted one by one, so the loop goes on to
\* the last cycle followed); and the loop never ends but on a stop signal
C26_LoopRunsUntilStopped ==
    /\ (cycle < LastCycle) ~> (cycle = LastCycle \/ Interrupted)
    /\ [](Ended => Interrupted)

\* a cycle that an exception had left was followed by the next cycle
C26_Witness ==
    /\ variant = "monitor"
    /\ pc = "spot"
    /\ \E e \in events : e.what = "cycle_error" /\ e.cycle + 1 = cycle

\* C27: once a stop signal was raised in monitor.py or python:crypto_monitor.py
\* the scheduler has stopped where it was: no symbol after the one in
\* progress has been taken up and no further cycle has started
C27_StopBeforeNextSymbol ==
    \A e \in events :
        (e.what = "interrupt" /\ variant \in {"monitor", "pcm"}) =>
          /\ pc = "stopped"
          /\ cycle = e.cycle
          /\ futures_symbols[idx] = e.symbol
          /\ \A f \in events :
               /\ f.cycle <= e.cycle
               /\ \A j \in (idx + 1)..Len(futures_symbols) :
                    f.cycle = e.cycle => f.symbol # futures_symbols[j]

\* the signal arrived while the first symbol of a cycle was being evaluated
C27_Witness ==
    /\ variant \in {"monitor", "pcm"}
    /\ pc = "stopped"
    /\ idx = 1
    /\ Len(futures_symbols) > 1
    /\ \E e \in events : e.what = "interrupt" /\ e.symbol = futures_symbols[1]

\* C28: no polling loop runs with no channel configured: an alert that has
\* fired belongs to a program that has a channel to send it on
C28_NoLoopWithoutChannel ==
    (cycle >= 1 /\ notified # {}) => configured # {}

\* C29: when the first resolution of the symbol universe fails, the engine
\* has ended with a startup error and monitors no substitute universe
C29_UnresolvedUniverseIsFatal ==
    \A e \in events :
        (variant = "ecm" /\ e.what = "cycle" /\ e.cycle = 1 /\ ~e.resolved)
            => (pc = "fatal" /\ futures_symbols = <<>>)

\* C30: every sample kept in a rolling history has a value: an open interest
\* that is present and not negative
C30_NoInvalidSampleInHistory ==
    /\ \A s \in SymbolSet : \A i \in 1..Len(history[s]) :
         history[s][i].oi # None /\ history[s][i].oi[1] >= 0
    /\ \A s \in SymbolSet : \A i \in 1..Len(oi_history[s]) :
         oi_history[s][i][2] >= 0

----------------------------------------------------------------------------
(* src/crypto_monitor.py : the alerts of a cycle *)

\* the cycles run_monitoring_cycle has finished
EcmCycles == {e \in events : variant = "ecm" /\ e.what = "cycle"}

\* the alerts of alert_history, as they were before they were sent
Recorded ==
    [i \in DOMAIN alert_history |->
        [alert_history[i] EXCEPT !.push_status = "PENDING"]]

\* how often alert_history holds the alert
TimesRecorded(alert) ==
    Cardinality({i \in DOMAIN Recorded : Recorded[i] = alert})

\* the alerts check_alert_conditions returned during the cycle
Produced(e) == CheckAll(e.prices, e.previous, e.cycle, e.began + e.took).alerts

\* C31: every alert that check_alert_conditions returned during a cycle is in
\* alert_history exactly once when the cycle has ended.
C31_ProducedAlertsAreDispatched ==
    \A e \in EcmCycles :
        \A i \in DOMAIN Produced(e) : TimesRecorded(Produced(e)[i]) = 1

\* the alerts check_alert_conditions returns for the i-th priced symbol of
\* the cycle (none when it raises for that symbol)
AlertsOf(e, i) ==
    check_alert_conditions(e.prices[i].symbol, e.prices[i].data, e.previous,
                           e.cycle, e.began + e.took).alerts

\* C33: whatever happens to another symbol of the cycle, the alerts that a
\* priced symbol's conditions give are in alert_history when the cycle has
\* ended, in every cycle.
C33_OtherSymbolsStillProcessed ==
    \A e \in EcmCycles :
        \A i \in DOMAIN e.prices :
            \A k \in DOMAIN AlertsOf(e, i) :
                TimesRecorded(AlertsOf(e, i)[k]) >= 1

\* C38: no symbol is priced twice in a cycle, and alert_history holds no two
\* alerts of one type for one symbol from one cycle.
C38_SymbolEvaluatedOncePerCycle ==
    /\ \A e \in EcmCycles :
           \A i, j \in DOMAIN e.prices :
               e.prices[i].symbol = e.prices[j].symbol => i = j
    /\ \A i, j \in DOMAIN alert_history :
           (/\ alert_history[i].symbol = alert_history[j].symbol
            /\ alert_history[i].alert_type = alert_history[j].alert_type
            /\ alert_history[i].cycle = alert_history[j].cycle) => i = j

\* a symbol that get_trading_pairs listed twice raised an alert
C38_Witness ==
    /\ variant = "ecm"
    /\ \E i, j \in DOMAIN futures_symbols :
           /\ i # j
           /\ futures_symbols[i] = futures_symbols[j]
           /\ \E e \in EcmCycles :
                 /\ e.resolved
                 /\ e.cycle = cycle
                 /\ \E k \in DOMAIN alert_history :
                       /\ alert_history[k].symbol = futures_symbols[i]
                       /\ alert_history[k].cycle = cycle

\* the cycles that ran to the end of run_monitoring_cycle
Completed == {e \in EcmCycles : e.result = "ok"}

PricedIn(e, s) == \E i \in DOMAIN e.prices : e.prices[i].symbol = s

PriceIn(e, s) ==
    e.prices[CHOOSE i \in DOMAIN e.prices : e.prices[i].symbol = s].data.price

\* the completed cycles before cycle c that priced s
PricedBefore(s, c) == {e \in Completed : e.cycle < c /\ PricedIn(e, s)}

\* prev holds, for every symbol, its price in the last of these cycles
HoldsLastPrices(prev, s, c) ==
    IF PricedBefore(s, c) = {} THEN s \notin DOMAIN prev
    ELSE /\ s \in DOMAIN prev
         /\ \E e \in PricedBefore(s, c) :
               /\ \A o \in PricedBefore(s, c) : o.cycle <= e.cycle
               /\ prev[s] = PriceIn(e, s)

\* C37: only the cycles that ran to the end count in cycle_count, add to
\* alert_history or change previous_prices, and the previous price a cycle
\* compares with is the symbol's price in the last such cycle before it.
C37_EarlyReturnLeavesStateAlone ==
    variant = "ecm" =>
        /\ cycle_count = Cardinality(Completed)
        /\ \A i \in DOMAIN alert_history :
               \E e \in Completed : e.cycle = alert_history[i].cycle
        /\ \A s \in SymbolSet :
               /\ HoldsLastPrices(previous_prices, s, cycle + 1)
               /\ \A e \in EcmCycles : HoldsLastPrices(e.previous, s, e.cycle)

\* a cycle obtained no prices after a cycle that stored prices and alerts
C37_Witness ==
    /\ alert_history # <<>>
    /\ \E e \in EcmCycles :
          /\ e.result = "no_prices"
          /\ e.previous # <<>>
          /\ e.cycle = cycle
    /\ cycle_count = cycle - 1

----------------------------------------------------------------------------
(* src/crypto_monitor.py : PushService *)

SameSymbol(i, j) == alert_history[i].symbol = alert_history[j].symbol

Pushed(i) == alert_history[i].push_status = "SUCCESS"

\* C35: of the alerts of one symbol, whatever their types, two with push
\* status SUCCESS are at least push_cooldown seconds apart, and those that
\* follow a SUCCESS in the same cycle are SKIPPED.
C35_OneSuccessPerCooldown ==
    \A i, j \in DOMAIN alert_history :
        (i < j /\ SameSymbol(i, j) /\ Pushed(i)) =>
            /\ Pushed(j) =>
                   alert_history[j].timestamp - alert_history[i].timestamp
                       >= push_config.push_cooldown
            /\ alert_history[j].cycle = alert_history[i].cycle =>
                   alert_history[j].push_status = "SKIPPED"

\* one symbol raised two alerts of different types in one cycle, the first
\* was pushed and the second skipped, and an alert of a later cycle was pushed
C35_Witness ==
    \E i, j, k \in DOMAIN alert_history :
        /\ i < j /\ j < k
        /\ SameSymbol(i, j) /\ SameSymbol(j, k)
        /\ alert_history[i].cycle = alert_history[j].cycle
        /\ alert_history[i].alert_type # alert_history[j].alert_type
        /\ Pushed(i)
        /\ alert_history[j].push_status = "SKIPPED"
        /\ Pushed(k)

\* the alerts of the symbol that were pushed
Successes(s) ==
    {i \in DOMAIN alert_history : alert_history[i].symbol = s /\ Pushed(i)}

\* C36: last_push_time[symbol] is the time of the symbol's last alert with
\* push status SUCCESS, and a symbol without such an alert has no entry:
\* calls that return SKIPPED or FAILED never write it.
C36_OnlySuccessStartsCooldown ==
    variant = "ecm" =>
        \A s \in SymbolSet :
            IF Successes(s) = {} THEN s \notin DOMAIN last_push_time
            ELSE /\ s \in DOMAIN last_push_time
                 /\ \E i \in Successes(s) :
                       /\ \A j \in Successes(s) : j <= i
                       /\ last_push_time[s] = alert_history[i].timestamp

\* send_alert returned FAILED, then SUCCESS, then SKIPPED for one symbol
C36_Witness ==
    \E i, j, k \in DOMAIN alert_history :
        /\ i < j /\ j < k
        /\ SameSymbol(i, j) /\ SameSymbol(j, k)
        /\ alert_history[i].push_status = "FAILED"
        /\ Pushed(j)
        /\ alert_history[k].push_status = "SKIPPED"
        /\ last_push_time[alert_history[k].symbol] = alert_history[j].timestamp

----------------------------------------------------------------------------
(* SYMBOLS_LIMIT *)

Min(a, b) == IF a <= b THEN a ELSE b

\* `selected` holds the n lowest symbols of the listing, in ascending order
FirstOfSorted(selected, listing, n) ==
    /\ Len(selected) = n
    /\ \A i \in DOMAIN selected : selected[i] \in Listed(listing)
    /\ \A i, j \in DOMAIN selected :
           i < j => Rank(selected[i]) < Rank(selected[j])
    /\ \A s \in Listed(listing) :
           (\A i \in DOMAIN selected : selected[i] # s) =>
               \A i \in DOMAIN selected : Rank(selected[i]) < Rank(s)

\* C32: with SYMBOLS_LIMIT = N > 0 every cycle of monitor.py and of
\* python:crypto_monitor.py goes over the first N symbols of the sorted
\* universe (all of them when there are fewer), with SYMBOLS_LIMIT = 0 over
\* the whole sorted universe, and over the same symbols in every cycle.
C32_SymbolLimitHonoured ==
    variant = "limit" =>
        \A k \in DOMAIN output :
            LET n == IF input.limit > 0
                     THEN Min(input.limit, Len(input.listing))
                     ELSE Len(input.listing)
            IN  /\ FirstOfSorted(output[k].monitor, input.listing, n)
                /\ FirstOfSorted(output[k].pcm, input.listing, n)
                /\ output[k] = output[1]

\* two cycles ran with a limit below the size of an unsorted listing
C32_Witness ==
    /\ variant = "limit"
    /\ Len(output) >= 2
    /\ input.limit > 0
    /\ input.limit < Len(input.listing)
    /\ \E i, j \in DOMAIN input.listing :
          i < j /\ Rank(input.listing[i]) > Rank(input.listing[j])
    /\ Len(output[2].monitor) = input.limit

----------------------------------------------------------------------------
(* src/crypto_spy.py : one invocation *)

\* C39: during an invocation of crypto_spy.py's main no symbol's history
\* holds more than one open-interest sample and no futures OI alert is sent.
C39_SinglePassNeverFiresOI ==
    variant = "spy" =>
        /\ \A s \in DOMAIN HISTORY : Len(HISTORY[s].oi) <= 1
        /\ \A m \in notified : m.kind # "oi"
        /\ \A a \in attempts : a.msg.kind # "oi"

\* main has gone over every symbol, each has its sample, one of them a jump
C39_Witness ==
    /\ variant = "spy"
    /\ pc = "done"
    /\ \A s \in DOMAIN HISTORY : Len(HISTORY[s].oi) = 1
    /\ \E s \in DOMAIN HISTORY : HISTORY[s].oi[1] = JumpOI

----------------------------------------------------------------------------
(* src/crypto_monitor.py : startup *)

\* C34: started without a config.json, main reaches the polling loop (it does
\* not return 1).
C34_StartsWithoutConfigFile ==
    (variant = "startup" /\ output # None /\ ~input.exists) =>
        output.result = "monitoring"

\* C40: a number or boolean key that config.json sets and the environment
\* does not set has the value of config.json in what load_config returns.
C40_FileBeatsDefaultWhenEnvUnset ==
    (variant = "startup" /\ output # None /\ output.result = "monitoring") =>
        \A k \in ConfigKeys :
            (/\ IsNumberOrBool(k)
             /\ k \in DOMAIN input.file
             /\ k \notin DOMAIN input.env) =>
                output.config[k] = input.file[k]

====
